---- MODULE Spec2Model ----
(***************************************************************************)
(* Incremental document indexing and retrieval of the support bot:         *)
(* LineChunker (embeddings/line_chunker.py), Embedder                      *)
(* (embeddings/embedder.py) and VectorStore (embeddings/vector_store.py).  *)
(*                                                                         *)
(* Representation.  A text is the sequence of its tokens (words); a file   *)
(* is the sequence of its raw lines; a file name is the sequence of its    *)
(* parts, the extension last.  A path is the pair (language directory,     *)
(* file name) that os.path.join(data_dir, lang, filename) builds.          *)
(* Similarities and cosine distances are scaled by 100.                    *)
(***************************************************************************)
EXTENDS Integers, Sequences, FiniteSets, TLC

VARIABLES fs, clock, api_key, store, run, runs, clean, indexed, ret, split, call,
          admin_states, prompt_dir, messages, user_languages

vars == <<fs, clock, api_key, store, run, runs, clean, indexed, ret, split, call,
          admin_states, prompt_dir, messages, user_languages>>

\* the state of the chat services: AdminHandler and ConversationManager
chat_vars == <<admin_states, prompt_dir, messages, user_languages>>

----------------------------------------------------------------------------
(* Bounds of the model *)

MaxFiles == 2
MaxClock == 2
MaxRuns == 2
MaxTopK == 2
MaxSplitLen == 8
MaxChunkSize == 4

----------------------------------------------------------------------------
(* config/settings.py *)

ChunkSize == 300

Overlap == 50

EmbeddingDim == 1536

SimilarityThreshold == 30

----------------------------------------------------------------------------
(* Strings: str.lower(), the `in` substring test, str.strip() *)

\* str.lower() of one word: the words of the model that hold a capital letter
Lower(tok) ==
  CASE tok = "Betting" -> "betting"
    [] tok = "Promotions" -> "promotions"
    [] tok = "Bonus" -> "bonus"
    [] tok = "Minimum" -> "minimum"
    [] tok = "Test" -> "test"
    [] OTHER -> tok

LowerText(text) == [i \in 1..Len(text) |-> Lower(text[i])]

\* the keywords that occur inside one (lower-case) word
WordsIn(tok) ==
  CASE tok = "promotions" -> {"promotions", "promotion"}
    [] tok = "database" -> {"database", "data"}
    [] tok = "bonuses" -> {"bonuses", "bonus"}
    [] OTHER -> {tok}

\* Python's `kw in text`
Contains(text, kw) ==
  IF kw = "money laundering"
  THEN \E i \in 1..(Len(text) - 1) : text[i] = "money" /\ text[i + 1] = "laundering"
  ELSE \E i \in 1..Len(text) : kw \in WordsIn(text[i])

IsSpace(tok) == tok \in {" ", "\n"}

RECURSIVE LStrip(_)
LStrip(text) ==
  IF text # <<>> /\ IsSpace(Head(text)) THEN LStrip(Tail(text)) ELSE text

RECURSIVE RStrip(_)
RStrip(text) ==
  IF text # <<>> /\ IsSpace(text[Len(text)])
  THEN RStrip(SubSeq(text, 1, Len(text) - 1))
  ELSE text

Strip(text) == RStrip(LStrip(text))

RECURSIVE Join(_)
Join(parts) == IF parts = <<>> THEN "" ELSE Head(parts) \o Join(Tail(parts))

EndsWithTxt(filename) == filename # <<>> /\ filename[Len(filename)] = ".txt"

\* os.path.splitext(filename)[0]
DocId(filename) ==
  IF Len(filename) > 1 THEN Join(SubSeq(filename, 1, Len(filename) - 1))
  ELSE Join(filename)

----------------------------------------------------------------------------
(* The document tree *)

Paths ==
  { [lang |-> "en", name |-> <<"terms", ".txt">>],
    [lang |-> "ru", name |-> <<"terms", ".txt">>],
    [lang |-> "en", name |-> <<"Promotions", ".txt">>],
    [lang |-> "en", name |-> <<"notes", ".md">>] }

DocBlank == << <<" ">> >>

DocRules == << <<"Betting", "rules">>, <<" ">>, <<"bonus", "terms", " ">> >>

DocDeposit == << <<"Minimum", "deposit", "\n">> >>

Docs == {DocBlank, DocRules, DocDeposit}

\* os.listdir(lang_dir) of an existing directory
ListDir(tree, lang) == {p \in DOMAIN tree : p.lang = lang}

----------------------------------------------------------------------------
(* LineChunker *)

RECURSIVE SplitFrom(_, _, _, _)
SplitFrom(tokens, start, chunk_size, overlap) ==
  LET end == IF start + chunk_size < Len(tokens) THEN start + chunk_size ELSE Len(tokens)
      seg == SubSeq(tokens, start + 1, end)
  IN IF end = Len(tokens) THEN <<seg>>
     ELSE <<seg>> \o SplitFrom(tokens, end - overlap, chunk_size, overlap)

\* the split that steps by chunk_size and forgets the overlap
_split_tokens_no_overlap(tokens, chunk_size, overlap) ==
  IF Len(tokens) <= chunk_size THEN <<tokens>>
  ELSE SplitFrom(tokens, 0, chunk_size, 0)

_split_tokens(tokens, chunk_size, overlap) ==
  IF Len(tokens) <= chunk_size THEN <<tokens>>
  ELSE SplitFrom(tokens, 0, chunk_size, overlap)

\* the classification with the bonus test before the sportsbook test
_detect_document_type_bonus_first(text) ==
  LET text_lower == LowerText(text)
  IN CASE Contains(text_lower, "bonus") \/ Contains(text_lower, "promotion") -> "bonus_rules"
       [] Contains(text_lower, "sportsbook") \/ Contains(text_lower, "betting") -> "sportsbook_rules"
       [] Contains(text_lower, "privacy") \/ Contains(text_lower, "data") -> "privacy_policy"
       [] Contains(text_lower, "aml") \/ Contains(text_lower, "money laundering") -> "aml_policy"
       [] Contains(text_lower, "terms") \/ Contains(text_lower, "conditions") -> "terms"
       [] OTHER -> "general"

_detect_document_type(text) ==
  LET text_lower == LowerText(text)
  IN CASE Contains(text_lower, "sportsbook") \/ Contains(text_lower, "betting") -> "sportsbook_rules"
       [] Contains(text_lower, "bonus") \/ Contains(text_lower, "promotion") -> "bonus_rules"
       [] Contains(text_lower, "privacy") \/ Contains(text_lower, "data") -> "privacy_policy"
       [] Contains(text_lower, "aml") \/ Contains(text_lower, "money laundering") -> "aml_policy"
       [] Contains(text_lower, "terms") \/ Contains(text_lower, "conditions") -> "terms"
       [] Contains(text_lower, "promotion") -> "promotions"
       [] OTHER -> "general"

\* embeddings/chunker.py, lines 133-150: the same tests as an if / elif chain
DocumentChunker_detect_document_type(text) ==
  LET text_lower == LowerText(text)
  IN IF Contains(text_lower, "sportsbook") \/ Contains(text_lower, "betting")
     THEN "sportsbook_rules"
     ELSE IF Contains(text_lower, "bonus") \/ Contains(text_lower, "promotion")
     THEN "bonus_rules"
     ELSE IF Contains(text_lower, "privacy") \/ Contains(text_lower, "data")
     THEN "privacy_policy"
     ELSE IF Contains(text_lower, "aml") \/ Contains(text_lower, "money laundering")
     THEN "aml_policy"
     ELSE IF Contains(text_lower, "terms") \/ Contains(text_lower, "conditions")
     THEN "terms"
     ELSE IF Contains(text_lower, "promotion") THEN "promotions"
     ELSE "general"

ChunkId(doc_id, line_number, seg_index) ==
  doc_id \o "_L" \o ToString(line_number) \o "_S" \o ToString(seg_index)

\* the chunks of one raw line (tokenizer.encode / decode keep the token sequence)
LineChunks(file_path, language, line_number, raw_line) ==
  LET line == Strip(raw_line)
      token_segments == _split_tokens(line, ChunkSize, Overlap)
      doc_id == DocId(file_path.name)
  IN IF line = <<>> THEN <<>>
     ELSE [k \in 1..Len(token_segments) |->
            [content |-> token_segments[k],
             metadata |-> [line_number |-> line_number,
                           segment_index |-> k - 1,
                           total_segments_in_line |-> Len(token_segments),
                           doc_id |-> doc_id,
                           path |-> file_path],
             chunk_id |-> ChunkId(doc_id, line_number, k - 1),
             language |-> language,
             document_type |-> _detect_document_type(token_segments[k]),
             section |-> "Line " \o ToString(line_number)]]

RECURSIVE ChunksUpTo(_, _, _, _)
ChunksUpTo(file_path, language, lines, n) ==
  IF n = 0 THEN <<>>
  ELSE ChunksUpTo(file_path, language, lines, n - 1)
         \o LineChunks(file_path, language, n, lines[n])

process_document(tree, file_path, language) ==
  ChunksUpTo(file_path, language, tree[file_path].lines, Len(tree[file_path].lines))

----------------------------------------------------------------------------
(* LineChunker.process_all_documents *)

\* the orders in which the two os.listdir loops can visit the files of a tree
WalkOrders(tree, files) ==
  {order \in [1..Cardinality(files) -> files] :
     /\ \A i, j \in DOMAIN order : i # j => order[i] # order[j]
     /\ \A i, j \in DOMAIN order : (i < j) => ~(order[i].lang = "ru" /\ order[j].lang = "en")}

RECURSIVE ChunksOfAll(_, _)
ChunksOfAll(tree, order) ==
  IF order = <<>> THEN <<>>
  ELSE process_document(tree, Head(order), Head(order).lang) \o ChunksOfAll(tree, Tail(order))

\* lines 82-91: the .txt files of the directories en and ru, without those
\* with "promotions" in the name
ChunkerEligible(tree) ==
  {p \in DOMAIN tree : /\ p.lang \in {"en", "ru"}
                       /\ EndsWithTxt(p.name)
                       /\ ~Contains(p.name, "promotions")}

process_all_documents(tree, order) == ChunksOfAll(tree, order)

----------------------------------------------------------------------------
(* Embedder.  A vector is its dimension and its direction; direction 0 is  *)
(* the zero vector.  The backend answers a request with "ok", "not_found"  *)
(* (openai.NotFoundError) or "error" (any other exception).                *)

\* a vector of the configured dimension that is not zero
UnitVector == [dim |-> EmbeddingDim, dir |-> 1]

ZeroVector == [dim |-> EmbeddingDim, dir |-> 0]

\* the vector the embedding backend returns for a text
BackendVector(text) ==
  [dim |-> EmbeddingDim,
   dir |-> CASE Contains(LowerText(text), "betting") -> 1
             [] Contains(LowerText(text), "bonus") -> 2
             [] OTHER -> 3]

\* what the backend answers to the first and to the second request of a call
BackendReplies ==
  { <<"ok", "ok">>, <<"not_found", "ok">>, <<"not_found", "error">>, <<"error", "ok">> }

\* EMBEDDING_SETTINGS['model_name']
ModelName == "text-embedding-3-small"

\* the request is made once; openai.NotFoundError is raised to the caller
_create_embeddings_no_fallback(inputs, has_key, replies) ==
  IF ~has_key
  THEN [raised |-> FALSE, calls |-> <<>>,
        vectors |-> [i \in 1..Len(inputs) |-> ZeroVector]]
  ELSE IF replies[1] = "ok"
  THEN [raised |-> FALSE, calls |-> <<ModelName>>,
        vectors |-> [i \in 1..Len(inputs) |-> BackendVector(inputs[i])]]
  ELSE [raised |-> TRUE, calls |-> <<ModelName>>, vectors |-> <<>>]

FallbackModel == "text-embedding-ada-002"

\* calls: the models of the requests made, in order
_create_embeddings(inputs, has_key, replies) ==
  LET vectors == [i \in 1..Len(inputs) |-> BackendVector(inputs[i])]
  IN IF ~has_key
     THEN [raised |-> FALSE, calls |-> <<>>,
           vectors |-> [i \in 1..Len(inputs) |-> ZeroVector]]
     ELSE IF replies[1] = "ok"
     THEN [raised |-> FALSE, calls |-> <<ModelName>>, vectors |-> vectors]
     ELSE IF replies[1] = "not_found"
     THEN IF replies[2] = "ok"
          THEN [raised |-> FALSE, calls |-> <<ModelName, FallbackModel>>, vectors |-> vectors]
          ELSE [raised |-> TRUE, calls |-> <<ModelName, FallbackModel>>, vectors |-> <<>>]
     ELSE [raised |-> TRUE, calls |-> <<ModelName>>, vectors |-> <<>>]

embed_texts(texts, has_key, replies) == _create_embeddings(texts, has_key, replies)

\* metadata enriched with language and document_type
EnrichedMeta(chunk) ==
  [k \in DOMAIN chunk.metadata \cup {"language", "document_type"} |->
     IF k = "language" THEN chunk.language
     ELSE IF k = "document_type" THEN chunk.document_type
     ELSE chunk.metadata[k]]

embed_chunks(chunks, has_key, replies) ==
  LET embeddings == embed_texts([i \in 1..Len(chunks) |-> chunks[i].content], has_key, replies)
  IN IF embeddings.raised
     THEN [raised |-> TRUE, calls |-> embeddings.calls, records |-> <<>>]
     ELSE [raised |-> FALSE, calls |-> embeddings.calls,
           records |-> [i \in 1..Len(chunks) |->
                          [chunk_id |-> chunks[i].chunk_id,
                           content |-> chunks[i].content,
                           embedding |-> embeddings.vectors[i],
                           metadata |-> EnrichedMeta(chunks[i]),
                           language |-> chunks[i].language,
                           document_type |-> chunks[i].document_type,
                           section |-> chunks[i].section]]]

----------------------------------------------------------------------------
(* The ChromaDB collection: a map from id to entry *)

IdsOf(data) == {data[i].chunk_id : i \in 1..Len(data)}

\* collection.upsert rejects an empty batch and a batch with a repeated id
UpsertRejects(data) == data = <<>> \/ Cardinality(IdsOf(data)) # Len(data)

CollectionUpsert(coll, data) ==
  [id \in DOMAIN coll \cup IdsOf(data) |->
     IF id \in IdsOf(data)
     THEN LET d == CHOOSE d \in {data[i] : i \in 1..Len(data)} : d.chunk_id = id
          IN [id |-> id, embedding |-> d.embedding,
              metadata |-> d.metadata, document |-> d.content]
     ELSE coll[id]]

add_embeddings(coll, embeddings_data) ==
  IF UpsertRejects(embeddings_data) THEN [raised |-> TRUE, coll |-> coll]
  ELSE [raised |-> FALSE, coll |-> CollectionUpsert(coll, embeddings_data)]

\* collection.get(where={'path': file_path})['ids']
CollectionGetPath(coll, file_path) ==
  {id \in DOMAIN coll : coll[id].metadata.path = file_path}

\* a delete that leaves the entries where they are
CollectionDeleteNothing(coll, ids) == coll

CollectionDelete(coll, ids) == [id \in DOMAIN coll \ ids |-> coll[id]]

NoMtime == 0 - 1

\* a lookup that never finds the recorded mtime
MetaMtimeLost(meta) == NoMtime

\* meta.get('mtime')
MetaMtime(meta) == IF "mtime" \in DOMAIN meta THEN meta.mtime ELSE NoMtime

StampMtime(chunk, mtime) ==
  [chunk EXCEPT !.metadata =
     [k \in DOMAIN chunk.metadata \cup {"mtime"} |->
        IF k = "mtime" THEN mtime ELSE chunk.metadata[k]]]

----------------------------------------------------------------------------
(* VectorStore.search *)

None == "None"

Truthy(x) == x \notin {None, ""}

\* a filter that tests the language alone when both arguments are given
_format_filters_first_only(language, doc_type) ==
  IF Truthy(language) THEN {<<"language", language>>}
  ELSE IF Truthy(doc_type) THEN {<<"document_type", doc_type>>}
  ELSE {}

\* a where-filter is the set of the (key, value) conditions that must all hold
_format_filters(language, doc_type) ==
  IF Truthy(language) /\ Truthy(doc_type)
  THEN {<<"language", language>>, <<"document_type", doc_type>>}
  ELSE IF Truthy(language) THEN {<<"language", language>>}
  ELSE IF Truthy(doc_type) THEN {<<"document_type", doc_type>>}
  ELSE {}

WhereHolds(meta, where) ==
  \A cond \in where : cond[1] \in DOMAIN meta /\ meta[cond[1]] = cond[2]

\* cosine distance (hnsw:space = cosine) of two directions, times 100
CosDistance(a, b) ==
  IF a = 0 \/ b = 0 THEN 100
  ELSE IF a = b THEN 0
  ELSE IF {a, b} = {1, 2} THEN 70
  ELSE IF {a, b} = {1, 3} THEN 71
  ELSE 150

\* a query that lists n_results matching entries, whatever their distance
CollectionQueryUnranked(coll, query_embedding, n_results, where) ==
  LET matching == {id \in DOMAIN coll : WhereHolds(coll[id].metadata, where)}
      n == IF n_results < Cardinality(matching) THEN n_results ELSE Cardinality(matching)
  IN {hits \in [1..n -> matching] : \A i, j \in 1..n : i # j => hits[i] # hits[j]}

\* collection.query: the n_results nearest matching entries, nearest first;
\* entries at equal distance come in any order
CollectionQuery(coll, query_embedding, n_results, where) ==
  LET matching == {id \in DOMAIN coll : WhereHolds(coll[id].metadata, where)}
      n == IF n_results < Cardinality(matching) THEN n_results ELSE Cardinality(matching)
      dist(id) == CosDistance(query_embedding.dir, coll[id].embedding.dir)
  IN {hits \in [1..n -> matching] :
        /\ \A i, j \in 1..n : i # j => hits[i] # hits[j]
        /\ \A i, j \in 1..n : i < j => dist(hits[i]) <= dist(hits[j])
        /\ \A id \in matching : (\A i \in 1..n : hits[i] # id)
                                   => \A i \in 1..n : dist(hits[i]) <= dist(id)}

RECURSIVE FilterHits(_, _, _, _)
FilterHits(coll, query_embedding, hits, threshold) ==
  IF hits = <<>> THEN <<>>
  ELSE LET id == Head(hits)
           similarity == 100 - CosDistance(query_embedding.dir, coll[id].embedding.dir)
           rest == FilterHits(coll, query_embedding, Tail(hits), threshold)
       IN IF similarity < threshold THEN rest
          ELSE <<[content |-> coll[id].document,
                  metadata |-> coll[id].metadata,
                  similarity |-> similarity]>> \o rest

\* search without the threshold test of line 131
search_unfiltered(coll, query_embedding, hits) ==
  FilterHits(coll, query_embedding, hits, 0 - 100)

search(coll, query_embedding, hits) ==
  FilterHits(coll, query_embedding, hits, SimilarityThreshold)

----------------------------------------------------------------------------
(* State.  fs: the document tree; clock: the time of the last write;      *)
(* api_key: whether OPENAI_API_KEY is set; store: the collection; run: the *)
(* position of load_documents; ret: what the last call returned; split and *)
(* call: a function called on its own, with its arguments and its result.  *)
(* History:                                                                *)
(* runs counts the calls of load_documents, clean says that nothing was    *)
(* written or upserted since load_documents last returned, indexed maps a  *)
(* path to the mtime load_documents last stored its chunks with.           *)

Idle == [pc |-> "idle"]

NoRet == [op |-> "none"]

NoSplit == [pc |-> "off"]

NoCall == [pc |-> "off"]

\* AdminHandler.__init__ (no admin state), no prompts directory yet,
\* ConversationManager.__init__ on a new database: an empty messages table
\* (rows, in the order of their ids; seq is the last id AUTOINCREMENT gave
\* out) and no language preference
ChatInit ==
  /\ admin_states = <<>>
  /\ prompt_dir = <<>>
  /\ messages = [rows |-> <<>>, seq |-> 0]
  /\ user_languages = <<>>

Init ==
  /\ fs = <<>>
  /\ clock = 0
  /\ api_key \in BOOLEAN
  /\ store = <<>>
  /\ run = Idle
  /\ runs = 0
  /\ clean = FALSE
  /\ indexed = <<>>
  /\ ret = NoRet
  /\ split = NoSplit
  /\ call = NoCall
  /\ ChatInit

----------------------------------------------------------------------------
(* The document tree changes between runs; a write stamps the file with   *)
(* the time of the write.                                                  *)

WriteFile(p, doc) ==
  /\ run.pc = "idle"
  /\ clock < MaxClock
  /\ p \in DOMAIN fs \/ Cardinality(DOMAIN fs) < MaxFiles
  /\ clock' = clock + 1
  /\ fs' = [q \in DOMAIN fs \cup {p} |->
              IF q = p THEN [lines |-> doc, mtime |-> clock + 1] ELSE fs[q]]
  /\ clean' = FALSE
  /\ ret' = NoRet
  /\ UNCHANGED <<api_key, store, run, runs, indexed, split, call, chat_vars>>

----------------------------------------------------------------------------
(* VectorStore.load_documents, one step per file of the walk.  The bot     *)
(* calls it once, in its constructor, before it serves any message.        *)

\* the walk that also enters a third directory
LanguageDirsWithDe == <<"en", "ru", "de">>

\* line 35: the language directories, in the order of the walk
LanguageDirs == <<"en", "ru">>

\* the entries of the language directories that the walk has not yet reached
Unvisited ==
  {p \in DOMAIN fs : \E i \in DOMAIN LanguageDirs : p.lang = LanguageDirs[i]} \ run.visited

\* the language directory the outer loop is in; a directory without files is
\* passed over, as a missing one is by os.path.isdir
CurrentLang ==
  LET left == {i \in DOMAIN LanguageDirs : ListDir(fs, LanguageDirs[i]) \ run.visited # {}}
  IN IF left = {} THEN LanguageDirs[1]
     ELSE LanguageDirs[CHOOSE i \in left : \A j \in left : i <= j]

\* the failure the call before this one ended with, if it was the last thing
\* that happened
LastFailure ==
  IF ret.op = "load_documents" /\ ret.raised
  THEN {[path |-> ret.failed, status |-> ret.status]}
  ELSE {}

LoadWithin(max_runs) ==
  /\ run.pc = "idle"
  /\ runs < max_runs
  /\ runs' = runs + 1
  /\ run' = [pc |-> "walk", visited |-> {}, pending |-> <<>>,
             added |-> 0, updated |-> 0, skipped |-> 0,
             chunks_added |-> 0, files |-> <<>>,
             store_changed |-> FALSE, after_clean |-> clean,
             after_failed |-> LastFailure,
             pre_indexed |-> indexed]
  /\ clean' = FALSE
  /\ ret' = NoRet
  /\ UNCHANGED <<fs, clock, api_key, store, indexed, split, call, chat_vars>>

StartLoad == LoadWithin(MaxRuns)

\* the test without .lower(), as LineChunker.process_all_documents has it
IsPromotionsCaseSensitive(filename) == Contains(filename, "promotions")

\* line 43
IsPromotions(filename) == Contains(LowerText(filename), "promotions")

\* the record of a skipped file filed under the added ones
SkippedInfoAsAdded(p) == [path |-> p, status |-> "added", chunks |-> 0]

\* lines 45 and 57-61
SkippedInfo(p) == [path |-> p, status |-> "skipped", chunks |-> 0]

\* lines 39-69: the filters, the lookup by path and the classification
Classify(p) ==
  /\ run.pc = "walk"
  /\ run.pending = <<>>
  /\ p \in Unvisited
  /\ p.lang = CurrentLang
  /\ LET ids_found == CollectionGetPath(store, p)
         mtime == fs[p].mtime
         seen == [run EXCEPT !.visited = @ \cup {p}]
     IN IF ~EndsWithTxt(p.name)
        THEN /\ run' = seen
             /\ store' = store
        ELSE IF IsPromotions(p.name)
        THEN /\ run' = [seen EXCEPT !.skipped = @ + 1, !.files = Append(@, SkippedInfo(p))]
             /\ store' = store
        ELSE IF ids_found # {}
        THEN \E first \in ids_found :
               IF MetaMtime(store[first].metadata) = mtime
               THEN /\ run' = [seen EXCEPT !.skipped = @ + 1,
                                 !.files = Append(@, SkippedInfo(p))]
                    /\ store' = store
               ELSE /\ store' = CollectionDelete(store, ids_found)
                    /\ run' = [seen EXCEPT !.updated = @ + 1, !.store_changed = TRUE,
                                 !.pending = <<[path |-> p, mtime |-> mtime, status |-> "updated"]>>]
        ELSE /\ run' = [seen EXCEPT !.added = @ + 1,
                          !.pending = <<[path |-> p, mtime |-> mtime, status |-> "added"]>>]
             /\ store' = store
  /\ ret' = NoRet
  /\ UNCHANGED <<fs, clock, api_key, runs, clean, indexed, split, call, chat_vars>>

\* lines 71-82: segmentation, stamping, embedding and upsert of the file;
\* an exception leaves load_documents (nothing in it or in its callers catches)
IndexFile(replies) ==
  /\ run.pc = "walk"
  /\ run.pending # <<>>
  /\ LET job == run.pending[1]
         chunks == process_document(fs, job.path, job.path.lang)
         stamped == [i \in 1..Len(chunks) |-> StampMtime(chunks[i], job.mtime)]
         embedded == embed_chunks(stamped, api_key, replies)
         added == add_embeddings(store, embedded.records)
     IN IF embedded.raised \/ added.raised
        THEN /\ run' = Idle
             /\ store' = store
             /\ indexed' = indexed
             /\ ret' = [op |-> "load_documents", raised |-> TRUE,
                        failed |-> job.path, status |-> job.status,
                        unvisited |-> Unvisited, pre_indexed |-> run.pre_indexed,
                        after_failed |-> run.after_failed]
        ELSE /\ store' = added.coll
             /\ indexed' = [q \in DOMAIN indexed \cup {job.path} |->
                              IF q = job.path THEN job.mtime ELSE indexed[q]]
             /\ run' = [run EXCEPT !.pending = <<>>,
                          !.store_changed = TRUE,
                          !.chunks_added = @ + Len(chunks),
                          !.files = Append(@, [path |-> job.path, status |-> job.status,
                                               chunks |-> Len(chunks)])]
             /\ ret' = NoRet
  /\ UNCHANGED <<fs, clock, api_key, runs, clean, split, call, chat_vars>>

\* lines 84-90
ReturnLoad ==
  /\ run.pc = "walk"
  /\ run.pending = <<>>
  /\ Unvisited = {}
  /\ ret' = [op |-> "load_documents", raised |-> FALSE,
             added |-> run.added, updated |-> run.updated, skipped |-> run.skipped,
             chunks_added |-> run.chunks_added, files |-> run.files,
             store_changed |-> run.store_changed, after_clean |-> run.after_clean,
             after_failed |-> run.after_failed, pre_indexed |-> run.pre_indexed]
  /\ run' = Idle
  /\ clean' = TRUE
  /\ UNCHANGED <<fs, clock, api_key, store, runs, indexed, split, call, chat_vars>>

----------------------------------------------------------------------------
(* Direct indexing, as test_system.py does: process_all_documents,         *)
(* embed_chunks, add_embeddings                                            *)

\* test_system.py, line 149: chunks[:10]
TestChunks == 10

\* seq[:n]
FirstOf(seq, n) == SubSeq(seq, 1, IF Len(seq) < n THEN Len(seq) ELSE n)

AddAll(replies) ==
  /\ run.pc = "idle"
  /\ \E order \in WalkOrders(fs, ChunkerEligible(fs)) :
       LET chunks == process_all_documents(fs, order)
           embedded == embed_chunks(FirstOf(chunks, TestChunks), api_key, replies)
           added == add_embeddings(store, embedded.records)
       IN /\ chunks # <<>>
          /\ IF embedded.raised \/ added.raised
             THEN /\ store' = store
                  /\ ret' = [op |-> "add_embeddings", raised |-> TRUE]
             ELSE /\ store' = added.coll
                  /\ ret' = [op |-> "add_embeddings", raised |-> FALSE]
  /\ clean' = FALSE
  /\ UNCHANGED <<fs, clock, api_key, run, runs, indexed, split, call, chat_vars>>

----------------------------------------------------------------------------
(* VectorStore.search_by_text, by the running bot *)

embed_text(text, has_key, replies) ==
  LET created == _create_embeddings(<<text>>, has_key, replies)
  IN IF created.raised THEN [raised |-> TRUE, calls |-> created.calls]
     ELSE [raised |-> FALSE, calls |-> created.calls, vector |-> created.vectors[1]]

Queries == { <<"betting", "odds">> }

LanguageArgs == {None, "en", "ru"}

DocTypeArgs == {None, "bonus_rules"}

\* lines 138-140 and 109-136; during says whether load_documents was at work
SearchCall(query_text, replies, top_k, language, document_type) ==
  /\ LET emb == embed_text(query_text, api_key, replies)
     IN IF emb.raised
        THEN ret' = [op |-> "search", raised |-> TRUE]
        ELSE \E hits \in CollectionQuery(store, emb.vector, top_k,
                                         _format_filters(language, document_type)) :
               ret' = [op |-> "search", raised |-> FALSE, top_k |-> top_k,
                       language |-> language, document_type |-> document_type,
                       query |-> emb.vector,
                       results |-> search(store, emb.vector, hits)]
  /\ UNCHANGED <<fs, clock, api_key, store, run, runs, clean, indexed, split, call, chat_vars>>

SearchByText(query_text, replies, top_k, language, document_type) ==
  /\ run.pc = "idle"
  /\ SearchCall(query_text, replies, top_k, language, document_type)

----------------------------------------------------------------------------
(* Query preprocessing: embeddings/preprocess_simple.py,                   *)
(* embeddings/preprocess_deepseek.py and DeepSeekAPI.generate_response.    *)
(* A punctuation mark is a token of its own.                               *)

IsClauseEnd(tok) == tok \in {".", "?", "!", ";"}

\* re.split(r'[.?!;]', query)
RECURSIVE SplitClauses(_)
SplitClauses(query) ==
  IF \A i \in 1..Len(query) : ~IsClauseEnd(query[i]) THEN <<query>>
  ELSE LET k == CHOOSE i \in 1..Len(query) :
                   IsClauseEnd(query[i]) /\ \A j \in 1..(i - 1) : ~IsClauseEnd(query[j])
       IN <<SubSeq(query, 1, k - 1)>> \o SplitClauses(SubSeq(query, k + 1, Len(query)))

\* sep.join(parts)
RECURSIVE JoinWith(_, _)
JoinWith(parts, sep) ==
  IF parts = <<>> THEN <<>>
  ELSE IF Len(parts) = 1 THEN parts[1]
  ELSE parts[1] \o sep \o JoinWith(Tail(parts), sep)

NonEmpty(part) == part # <<>>

split_simple(query, language) ==
  LET parts == SplitClauses(query)
      stripped == [i \in 1..Len(parts) |-> Strip(parts[i])]
  IN JoinWith(SelectSeq(stripped, NonEmpty), <<" ">>)

\* what the chat-completion endpoint does with a request: the request fails
\* (requests.exceptions.RequestException: no connection, HTTP error status),
\* or it answers with a JSON object
CleanedQuery == <<"betting", "odds">>

LlmOutcomes ==
  { [kind |-> "request_exception", text |-> "503 Server Error"],
    [kind |-> "json", body |-> [error |-> "invalid api key"]],
    [kind |-> "json", body |-> [id |-> "chatcmpl"]],
    [kind |-> "json", body |-> [choices |-> <<>>]],
    [kind |-> "json", body |-> [choices |-> <<[message |-> [content |-> CleanedQuery]]>>]] }

\* DeepSeekAPI.generate_response
generate_response(outcome) ==
  IF outcome.kind = "request_exception" THEN [error |-> outcome.text]
  ELSE outcome.body

\* response['choices'][0] of an empty list raises IndexError
split_deepseek(query, language, outcome) ==
  LET response == generate_response(outcome)
  IN IF "choices" \in DOMAIN response
     THEN IF response.choices = <<>> THEN [raised |-> TRUE]
          ELSE [raised |-> FALSE, value |-> response.choices[1].message.content]
     ELSE [raised |-> FALSE, value |-> query]

\* SEARCH_SETTINGS['preprocess_type']
PreprocessType == "simple"

PreprocessTypes == {"simple", "deepseek"}

preprocess_query(query, language, preprocess_type, outcome) ==
  IF preprocess_type = "deepseek" THEN split_deepseek(query, language, outcome)
  ELSE [raised |-> FALSE, value |-> split_simple(query, language)]

\* the endpoint is not called under the simple strategy
NoOutcome == [kind |-> "none"]

----------------------------------------------------------------------------
(* DocumentSearch (embeddings/search.py).  A function of it yields the set *)
(* of its possible outcomes, one for each order in which the collection    *)
(* can list entries at equal distance.  A dict is the sequence of its      *)
(* (key, value) pairs in insertion order.  The Cyrillic literals of the    *)
(* source are written in Latin letters.                                    *)

Sentinel == <<"Ne najdeno relevantnoj informacii v dokumentah.">>

DocumentSearch_search(coll, has_key, query, language, document_type, top_k, replies) ==
  LET processed_query == preprocess_query(query, IF Truthy(language) THEN language ELSE "en",
                                          PreprocessType, NoOutcome)
  IN IF processed_query.raised THEN {[raised |-> TRUE]}
     ELSE LET query_embedding == embed_text(processed_query.value, has_key, replies)
          IN IF query_embedding.raised THEN {[raised |-> TRUE]}
             ELSE {[raised |-> FALSE, results |-> search(coll, query_embedding.vector, hits)] :
                     hits \in CollectionQuery(coll, query_embedding.vector, top_k,
                                              _format_filters(language, document_type))}

\* line 122: result.get('metadata', {}).get('section') or result.get('section', '-')
SectionOf(result) ==
  IF "section" \in DOMAIN result.metadata /\ Truthy(result.metadata.section)
  THEN result.metadata.section
  ELSE IF "section" \in DOMAIN result THEN result.section
  ELSE "-"

\* line 124
ContextPart(i, result) ==
  <<"Istochnik " \o ToString(i) \o " (razdel: " \o SectionOf(result) \o "):\n">>
    \o result.content \o <<"\n">>

\* the context without the test of line 117
FormatContextNoSentinel(results) ==
  JoinWith([i \in 1..Len(results) |-> ContextPart(i, results[i])], <<"\n">>)

\* lines 117-126
FormatContext(results) ==
  IF results = <<>> THEN Sentinel
  ELSE JoinWith([i \in 1..Len(results) |-> ContextPart(i, results[i])], <<"\n">>)

get_context_for_llm(coll, has_key, query, language, document_type, top_k, replies) ==
  {IF found.raised THEN [raised |-> TRUE]
   ELSE [raised |-> FALSE, results |-> found.results, context |-> FormatContext(found.results)] :
     found \in DocumentSearch_search(coll, has_key, query, language, document_type, top_k, replies)}

\* contexts[key] = value
DictSet(dict, key, value) ==
  IF \E i \in 1..Len(dict) : dict[i][1] = key
  THEN [i \in 1..Len(dict) |-> IF dict[i][1] = key THEN <<key, value>> ELSE dict[i]]
  ELSE Append(dict, <<key, value>>)

\* contexts.get(key, default)
DictGet(dict, key, default) ==
  IF \E i \in 1..Len(dict) : dict[i][1] = key
  THEN (CHOOSE pair \in {dict[i] : i \in 1..Len(dict)} : pair[1] = key)[2]
  ELSE default

\* a map that keeps the sentinel contexts too
KeepAnyContext(context) == TRUE

\* lines 143 and 148
KeepContext(context) == context # Sentinel

\* en_results and ru_results: what the two searches found (not returned by the code)
get_multilingual_context(coll, has_key, query, top_k, replies_en, replies_ru) ==
  LET en_contexts == get_context_for_llm(coll, has_key, query, "en", None, top_k, replies_en)
      ru_contexts == get_context_for_llm(coll, has_key, query, "ru", None, top_k, replies_ru)
      with_en(en) == IF KeepContext(en.context) THEN DictSet(<<>>, "en", en.context) ELSE <<>>
      with_ru(dict, ru) == IF KeepContext(ru.context) THEN DictSet(dict, "ru", ru.context) ELSE dict
  IN {IF en.raised \/ ru.raised THEN [raised |-> TRUE]
      ELSE [raised |-> FALSE, contexts |-> with_ru(with_en(en), ru),
            en_results |-> en.results, ru_results |-> ru.results] :
        en \in en_contexts, ru \in ru_contexts}

----------------------------------------------------------------------------

Next ==
  \/ \E p \in Paths, doc \in Docs : WriteFile(p, doc)
  \/ StartLoad
  \/ \E p \in Paths : Classify(p)
  \/ \E replies \in BackendReplies : IndexFile(replies)
  \/ ReturnLoad
  \/ \E replies \in BackendReplies : AddAll(replies)
  \/ \E query_text \in Queries, replies \in BackendReplies, top_k \in 1..MaxTopK,
        language \in LanguageArgs, document_type \in DocTypeArgs :
       SearchByText(query_text, replies, top_k, language, document_type)

Spec == Init /\ [][Next]_vars

----------------------------------------------------------------------------
(* The bot at work (bot/main.py): its constructor indexes the tree it      *)
(* finds, then it answers messages through DocumentSearch.                 *)

GetContextForLlm(query, language, document_type, top_k, replies) ==
  /\ run.pc = "idle"
  /\ \E out \in get_context_for_llm(store, api_key, query, language, document_type,
                                    top_k, replies) :
       IF out.raised
       THEN ret' = [op |-> "get_context_for_llm", raised |-> TRUE, replies |-> replies]
       ELSE ret' = [op |-> "get_context_for_llm", raised |-> FALSE, replies |-> replies,
                    query |-> query, language |-> language,
                    document_type |-> document_type, top_k |-> top_k,
                    results |-> out.results, context |-> out.context]
  /\ UNCHANGED <<fs, clock, api_key, store, run, runs, clean, indexed, split, call, chat_vars>>

GetMultilingualContext(query, top_k, replies_en, replies_ru) ==
  /\ run.pc = "idle"
  /\ \E out \in get_multilingual_context(store, api_key, query, top_k, replies_en, replies_ru) :
       IF out.raised
       THEN ret' = [op |-> "get_multilingual_context", raised |-> TRUE]
       ELSE ret' = [op |-> "get_multilingual_context", raised |-> FALSE,
                    query |-> query, top_k |-> top_k, contexts |-> out.contexts,
                    en_results |-> out.en_results, ru_results |-> out.ru_results]
  /\ UNCHANGED <<fs, clock, api_key, store, run, runs, clean, indexed, split, call, chat_vars>>

----------------------------------------------------------------------------
(* The conversation history: bot/history_manager.py and, a copy of it,     *)
(* core/conversation_manager.py.  A timestamp is the second of the insert  *)
(* (CURRENT_TIMESTAMP).                                                    *)

\* lines 29 and 32, 49
HistoryLimit == 20

\* timedelta(hours=1), in seconds
Hour == 3600

RowsOf(db, user_id) == {i \in 1..Len(db.rows) : db.rows[i].user_id = user_id}

\* ORDER BY timestamp DESC: the newest message comes first
NewestFirst(a, b) ==
  a.timestamp > b.timestamp \/ (a.timestamp = b.timestamp /\ a.id > b.id)

\* an ORDER BY timestamp ASC that yields the rows of one timestamp the newest
\* first
OldestFirstTiesReversed(a, b) ==
  a.timestamp < b.timestamp \/ (a.timestamp = b.timestamp /\ a.id > b.id)

\* ORDER BY timestamp ASC of line 31: rows of one timestamp come in the order
\* in which the index idx_user_id yields them, that of their ids
OldestFirst(a, b) ==
  a.timestamp < b.timestamp \/ (a.timestamp = b.timestamp /\ a.id < b.id)

\* SELECT id ... WHERE user_id = ? ORDER BY timestamp ASC LIMIT n
OldestIds(db, user_id, n) ==
  {db.rows[i].id : i \in {k \in RowsOf(db, user_id) :
     Cardinality({j \in RowsOf(db, user_id) : OldestFirst(db.rows[j], db.rows[k])}) < n}}

\* DELETE FROM messages WHERE id IN ids
DeleteIds(db, ids) ==
  LET keep(row) == row.id \notin ids
  IN [db EXCEPT !.rows = SelectSeq(@, keep)]

\* lines 22-33
add_message(db, user_id, role, content, now) ==
  LET row == [id |-> db.seq + 1, user_id |-> user_id, timestamp |-> now,
              role |-> role, content |-> content]
      inserted == [rows |-> Append(db.rows, row), seq |-> db.seq + 1]
      count == Cardinality(RowsOf(inserted, user_id))
  IN IF count > HistoryLimit
     THEN DeleteIds(inserted, OldestIds(inserted, user_id, count - HistoryLimit))
     ELSE inserted

\* the rows of a set of indices: ORDER BY timestamp DESC, id DESC
RECURSIVE Sorted(_, _)
Sorted(db, indices) ==
  IF indices = {} THEN <<>>
  ELSE LET first == CHOOSE i \in indices :
                      \A j \in indices \ {i} : NewestFirst(db.rows[i], db.rows[j])
       IN <<db.rows[first]>> \o Sorted(db, indices \ {first})

Reversed(seq) == [i \in 1..Len(seq) |-> seq[Len(seq) + 1 - i]]

\* lines 35-55
get_history(db, user_id, now) ==
  LET threshold_time == now - Hour
      recent == {i \in RowsOf(db, user_id) : db.rows[i].timestamp >= threshold_time}
      ordered == Sorted(db, recent)
      rows == SubSeq(ordered, 1, IF Len(ordered) < HistoryLimit THEN Len(ordered)
                                 ELSE HistoryLimit)
  IN Reversed([i \in 1..Len(rows) |-> [role |-> rows[i].role, content |-> rows[i].content]])

\* lines 57-60
reset_history(db, user_id) ==
  DeleteIds(db, {db.rows[i].id : i \in RowsOf(db, user_id)})

----------------------------------------------------------------------------
(* TelSuppBot of bot/main.py, in a private chat *)

\* main.py, line 149, and telegram_handler.py, line 189: the reply of the
\* except branch
ErrorReply(user_language) ==
  IF user_language = "ru"
  THEN "Situaciya kazhetsya ser'yoznoj, ya uzhe zovu operatora - on podojdyot cherez minutu."
  ELSE "The situation seems serious, I'm calling an operator - they'll join in a minute."

\* self.user_languages.get(user_id, default)
get_user_language(languages, user_id, default) ==
  IF user_id \in DOMAIN languages THEN languages[user_id] ELSE default

\* the addresses the pattern of sanitize_emails matches
IsEmail(tok) == tok \in {"support@spartans.com"}

sanitize_emails(text) ==
  [i \in 1..Len(text) |-> IF IsEmail(text[i]) THEN "[email removed]" ELSE text[i]]

\* the first context of the map, whatever the language of the query
ChooseFirstContext(contexts, query_language) ==
  IF contexts # <<>> THEN contexts[1][2] ELSE <<>>

\* line 115: contexts.get(query_language, '') or next(iter(contexts.values()), '')
ChooseContext(contexts, query_language) ==
  LET own == DictGet(contexts, query_language, <<>>)
  IN IF own # <<>> THEN own
     ELSE IF contexts # <<>> THEN contexts[1][2]
     ELSE <<>>

\* top_k of line 111
ContextTopK == 25

\* the languages langdetect's answer is reduced to (lines 98-105)
QueryLanguages == {"en", "ru"}

\* what langdetect makes of a message
Detections == {"en", "ru", "de"}

\* what the chat endpoint does with the request of generate_support_response:
\* the request fails, or the endpoint answers with a JSON body.  A null of
\* JSON is told by a field of its own beside the empty value.
ChatOutcomes ==
  { [kind |-> "request_exception", text |-> "503 Server Error"],
    [kind |-> "json", body |-> [error |-> "invalid api key"]],
    [kind |-> "json", body |-> [id |-> "chatcmpl"]],
    [kind |-> "json", body |-> [choices |-> <<>>]],
    [kind |-> "json", body |-> [choices |-> <<>>, choices_null |-> TRUE]],
    [kind |-> "json", body |-> [choices |-> <<[message |-> [content |-> <<>>,
                                                           content_null |-> TRUE]]>>]],
    [kind |-> "json", body |-> [choices |-> <<[message |-> [content |-> <<"reply">>]]>>]],
    [kind |-> "json", body |-> [choices |-> <<[message |-> [content |->
                 <<"[ESCALATE]", " ", "Write", " ", "support@spartans.com">>]]>>]] }

\* line 377
ApiErrorText == <<"Oshibka pri obrabotke otveta ot API">>

\* line 372
GenerationErrorText(error) == <<"Oshibka pri generacii otveta: ", error>>

\* DeepSeekAPI.generate_support_response, lines 369-377: the text of the
\* error, the content of the first choice, or the text for a body without
\* a choice (KeyError, IndexError); choices of null raise TypeError, a content
\* of null is returned as None
generate_support_response(outcome) ==
  LET response == generate_response(outcome)
  IN IF "error" \in DOMAIN response
     THEN [raised |-> FALSE, none |-> FALSE, value |-> GenerationErrorText(response.error)]
     ELSE IF "choices" \notin DOMAIN response
     THEN [raised |-> FALSE, none |-> FALSE, value |-> ApiErrorText]
     ELSE IF "choices_null" \in DOMAIN response
     THEN [raised |-> TRUE, none |-> FALSE, value |-> <<>>]
     ELSE IF response.choices = <<>>
     THEN [raised |-> FALSE, none |-> FALSE, value |-> ApiErrorText]
     ELSE [raised |-> FALSE,
           none |-> "content_null" \in DOMAIN response.choices[1].message,
           value |-> response.choices[1].message.content]

\* lines 119-142: the marker [ESCALATE] is taken out and the text stripped on
\* the left, the addresses are taken out; the other substitutions (headings,
\* ****, "contact support", "(sources ...)") match no text of ChatOutcomes
format_response(response) ==
  LET NotMarker(tok) == tok # "[ESCALATE]"
      NotEmail(tok) == ~IsEmail(tok)
      escalated == IF \E i \in DOMAIN response : response[i] = "[ESCALATE]"
                   THEN LStrip(SelectSeq(response, NotMarker))
                   ELSE response
  IN SelectSeq(escalated, NotEmail)

\* self.user_languages[user_id] = lang
SetUserLanguage(languages, user_id, lang) ==
  [u \in DOMAIN languages \cup {user_id} |-> IF u = user_id THEN lang ELSE languages[u]]

\* the stored messages of one behaviour of the bot
MaxBotMessages == 4

\* lines 68-150 of handle_message in a private chat: text is
\* update.message.text, detected what langdetect makes of it, outcome what
\* the chat endpoint does.  A response of None raises TypeError at line 119.  The application handles one update at
\* a time (Application.builder() without concurrent_updates), so the awaits
\* of the handler let no other handler in.
HandleMessage(user_id, text, detected, replies_en, replies_ru, outcome) ==
  /\ run.pc = "idle"
  /\ clean
  /\ messages.seq < MaxBotMessages
  /\ LET message_text == Strip(text)
         query_language == IF detected \in {"en", "ru"} THEN detected ELSE "en"
         languages == IF detected \in {"en", "ru"}
                      THEN SetUserLanguage(user_languages, user_id, query_language)
                      ELSE user_languages
         user_language == get_user_language(languages, user_id, query_language)
         processed_query == preprocess_query(message_text, query_language,
                                             PreprocessType, NoOutcome)
         said == [op |-> "handle_message", user_id |-> user_id,
                  message_text |-> message_text, query_language |-> query_language]
         failed == said @@ [raised |-> TRUE, reply |-> ErrorReply(user_language)]
         generated == generate_support_response(outcome)
     IN /\ user_languages' = languages
        /\ IF processed_query.raised
           THEN /\ messages' = messages
                /\ ret' = failed
           ELSE \E out \in get_multilingual_context(store, api_key, processed_query.value,
                                                    ContextTopK, replies_en, replies_ru) :
                  IF out.raised \/ generated.raised \/ generated.none
                  THEN /\ messages' = messages
                       /\ ret' = failed
                  ELSE LET doc_context_raw == ChooseContext(out.contexts, query_language)
                           response == format_response(generated.value)
                       IN /\ messages' = add_message(add_message(messages, user_id, "user",
                                                                 message_text, clock),
                                                     user_id, "bot", response, clock)
                          /\ ret' = said @@ [raised |-> FALSE,
                               contexts |-> out.contexts,
                               doc_context_raw |-> doc_context_raw,
                               doc_context |-> sanitize_emails(doc_context_raw),
                               history |-> get_history(messages, user_id, clock),
                               reply |-> response]
  /\ UNCHANGED <<fs, clock, api_key, store, run, runs, clean, indexed, split, call,
                 admin_states, prompt_dir>>

\* str.split('_')[1] of a text that starts with 'lang_': what stands between
\* the first '_' and the next one
RECURSIVE UpToUnderscore(_)
UpToUnderscore(toks) ==
  IF toks = <<>> \/ Head(toks) = "_" THEN ""
  ELSE Head(toks) \o UpToUnderscore(Tail(toks))

\* lines 164-178 of main.py, lines 204-219 of telegram_handler.py: data is
\* query.data, cut at its underscores
handle_callback(languages, db, user_id, data) ==
  IF Len(data) >= 2 /\ data[1] = "lang" /\ data[2] = "_"
  THEN [user_languages |-> SetUserLanguage(languages, user_id,
                                           UpToUnderscore(SubSeq(data, 3, Len(data)))),
        messages |-> db, answer |-> "Language changed!"]
  ELSE IF data = <<"reset">>
  THEN [user_languages |-> languages, messages |-> reset_history(db, user_id),
        answer |-> "History reset!"]
  ELSE [user_languages |-> languages, messages |-> db, answer |-> None]

\* the buttons of start_conversation, and a language the bot has no documents in
CallbackData == { <<"lang", "_", "ru">>, <<"lang", "_", "en">>, <<"lang", "_", "de">>,
                  <<"reset">> }

\* TelSuppBot.handle_callback
HandleCallback(user_id, data) ==
  /\ run.pc = "idle"
  /\ clean
  /\ LET out == handle_callback(user_languages, messages, user_id, data)
     IN /\ user_languages' = out.user_languages
        /\ messages' = out.messages
        /\ ret' = [op |-> "handle_callback", user_id |-> user_id, data |-> data,
                   answer |-> out.answer]
  /\ UNCHANGED <<fs, clock, api_key, store, run, runs, clean, indexed, split, call,
                 admin_states, prompt_dir>>

\* A Python call with keyword arguments: a keyword that names no parameter
\* of the function raises TypeError before the body runs.
Accepts(parameters, keywords) == keywords \subseteq parameters

\* embeddings/search.py, line 128: get_multilingual_context(self, query, top_k=2)
MultilingualContextParameters == {"query", "top_k"}

\* core/context_builder.py, lines 27-30; line 28 passes top_k= and language=
get_context_for_query(coll, has_key, query, language, replies_en, replies_ru) ==
  LET processed_query == preprocess_query(query, language, PreprocessType, NoOutcome)
  IN IF processed_query.raised THEN {[raised |-> TRUE, error |-> "Exception"]}
     ELSE IF ~Accepts(MultilingualContextParameters, {"top_k", "language"})
     THEN {[raised |-> TRUE, error |-> "TypeError"]}
     ELSE {IF out.raised THEN [raised |-> TRUE, error |-> "Exception"]
           ELSE [raised |-> FALSE, value |-> ChooseContext(out.contexts, language)] :
             out \in get_multilingual_context(coll, has_key, processed_query.value,
                                              ContextTopK, replies_en, replies_ru)}

\* ContextBuilder.get_context_for_query as TelegramHandler.handle_message calls
\* it (telegram_handler.py, line 177), once the constructor has indexed the tree
GetContextForQuery(query, language, replies_en, replies_ru) ==
  /\ run.pc = "idle"
  /\ clean
  /\ \E out \in get_context_for_query(store, api_key, query, language,
                                       replies_en, replies_ru) :
       IF out.raised
       THEN ret' = [op |-> "get_context_for_query", raised |-> TRUE, error |-> out.error,
                    query |-> query, language |-> language,
                    replies_en |-> replies_en, replies_ru |-> replies_ru]
       ELSE ret' = [op |-> "get_context_for_query", raised |-> FALSE, value |-> out.value,
                    query |-> query, language |-> language,
                    replies_en |-> replies_en, replies_ru |-> replies_ru]
  /\ UNCHANGED <<fs, clock, api_key, store, run, runs, clean, indexed, split, call, chat_vars>>

BotPaths ==
  { [lang |-> "en", name |-> <<"terms", ".txt">>],
    [lang |-> "ru", name |-> <<"terms", ".txt">>],
    [lang |-> "ru", name |-> <<"rules", ".txt">>] }

DocContact == << <<"Betting", "support@spartans.com">> >>

BotDocs == {DocRules, DocDeposit, DocContact}

\* the trees the bot can find when it starts
BotTrees ==
  UNION {[files -> [lines : BotDocs, mtime : {1}]] :
           files \in {some \in SUBSET BotPaths : Cardinality(some) <= MaxFiles}}

\* what the backend answers to the requests of the English and of the Russian
\* search of one get_multilingual_context
ReplyPairs ==
  { << <<"ok", "ok">>, <<"ok", "ok">> >>,
    << <<"not_found", "ok">>, <<"not_found", "ok">> >>,
    << <<"ok", "ok">>, <<"error", "ok">> >>,
    << <<"error", "ok">>, <<"ok", "ok">> >>,
    << <<"not_found", "error">>, <<"ok", "ok">> >> }

\* the backend answers every request, or fails every request
BuilderReplies ==
  { << <<"ok", "ok">>, <<"ok", "ok">> >>,
    << <<"error", "error">>, <<"error", "error">> >> }

\* update.effective_user.id
BotUsers == {7}

BotQueries == { <<"Betting", "odds", "?">>, <<"deposit", ".", " ", "limits">> }

InitBot ==
  /\ fs \in BotTrees
  /\ clock = 1
  /\ api_key \in BOOLEAN
  /\ store = <<>>
  /\ run = Idle
  /\ runs = 0
  /\ clean = FALSE
  /\ indexed = <<>>
  /\ ret = NoRet
  /\ split = NoSplit
  /\ call = NoCall
  /\ ChatInit

NextBot ==
  \/ StartLoad
  \/ \E p \in BotPaths : Classify(p)
  \/ \E replies \in BackendReplies : IndexFile(replies)
  \/ ReturnLoad
  \/ \E query \in BotQueries, language \in QueryLanguages,
        top_k \in 1..MaxTopK, replies \in BackendReplies :
       GetContextForLlm(query, language, None, top_k, replies)
  \/ \E query \in BotQueries, top_k \in 1..MaxTopK, replies \in ReplyPairs :
       GetMultilingualContext(query, top_k, replies[1], replies[2])
  \/ \E query \in BotQueries, language \in QueryLanguages, replies \in BuilderReplies :
       GetContextForQuery(query, language, replies[1], replies[2])

SpecBot == InitBot /\ [][NextBot]_vars

----------------------------------------------------------------------------
(* TelSuppBot, bot/main.py: the constructor indexes the tree once, then    *)
(* the handlers answer the updates one at a time                           *)

\* line 41: the constructor calls load_documents
MainLoads == 1

\* the trees the constructor can find
MainTrees ==
  UNION {[files -> [lines : {DocRules, DocContact}, mtime : {1}]] :
           files \in {some \in SUBSET BotPaths : Cardinality(some) <= MaxFiles}}

\* the backend answers the requests of both searches, or fails the first
\* request of the English search
MainReplies ==
  { << <<"ok", "ok">>, <<"ok", "ok">> >>,
    << <<"error", "ok">>, <<"ok", "ok">> >> }

\* update.message.text
MainTexts == { <<" ", "Betting", "odds", "?", "\n">> }

InitMain ==
  /\ fs \in MainTrees
  /\ clock = 1
  /\ api_key \in BOOLEAN
  /\ store = <<>>
  /\ run = Idle
  /\ runs = 0
  /\ clean = FALSE
  /\ indexed = <<>>
  /\ ret = NoRet
  /\ split = NoSplit
  /\ call = NoCall
  /\ ChatInit

NextMain ==
  \/ LoadWithin(MainLoads)
  \/ \E p \in BotPaths : Classify(p)
  \/ \E replies \in BackendReplies : IndexFile(replies)
  \/ ReturnLoad
  \/ \E user_id \in BotUsers, text \in MainTexts, detected \in Detections,
        replies \in MainReplies, outcome \in ChatOutcomes :
       HandleMessage(user_id, text, detected, replies[1], replies[2], outcome)
  \/ \E user_id \in BotUsers, data \in CallbackData : HandleCallback(user_id, data)

SpecMain == InitMain /\ [][NextMain]_vars

----------------------------------------------------------------------------
(* LineChunker._split_tokens on its own: any token list, any chunk size    *)
(* and any smaller overlap                                                 *)

InitSplit ==
  /\ fs = <<>>
  /\ clock = 0
  /\ api_key = FALSE
  /\ store = <<>>
  /\ run = Idle
  /\ runs = 0
  /\ clean = FALSE
  /\ indexed = <<>>
  /\ ret = NoRet
  /\ call = NoCall
  /\ \E n \in 0..MaxSplitLen, chunk_size \in 1..MaxChunkSize :
       \E overlap \in 0..(chunk_size - 1) :
         split = [pc |-> "input", tokens |-> [i \in 1..n |-> i],
                  chunk_size |-> chunk_size, overlap |-> overlap]
  /\ ChatInit

SplitTokens ==
  /\ split.pc = "input"
  /\ split' = [pc |-> "done", tokens |-> split.tokens,
               chunk_size |-> split.chunk_size, overlap |-> split.overlap,
               segments |-> _split_tokens(split.tokens, split.chunk_size, split.overlap)]
  /\ UNCHANGED <<fs, clock, api_key, store, run, runs, clean, indexed, ret, call, chat_vars>>

NextSplit == SplitTokens

SpecSplit == InitSplit /\ [][NextSplit]_vars

----------------------------------------------------------------------------
(* DocumentChunker._split_section (embeddings/chunker.py), the splitter of *)
(* the legacy chunker, one step per iteration of its while loop.  The list *)
(* of chunks is followed up to MaxSectionChunks entries.                   *)

MaxSectionChunks == MaxSplitLen + 1

\* lines 102-107
SplitSectionEnter ==
  /\ split.pc = "input"
  /\ split' = IF Len(split.tokens) <= split.chunk_size
              THEN [pc |-> "done", tokens |-> split.tokens,
                    chunk_size |-> split.chunk_size, overlap |-> split.overlap,
                    chunks |-> <<split.tokens>>]
              ELSE [pc |-> "loop", tokens |-> split.tokens,
                    chunk_size |-> split.chunk_size, overlap |-> split.overlap,
                    chunks |-> <<>>, start |-> 0]
  /\ UNCHANGED <<fs, clock, api_key, store, run, runs, clean, indexed, ret, call, chat_vars>>

\* lines 109-113: one iteration
SplitSectionStep ==
  /\ split.pc = "loop"
  /\ split.start < Len(split.tokens)
  /\ Len(split.chunks) < MaxSectionChunks
  /\ LET end == IF split.start + split.chunk_size < Len(split.tokens)
                THEN split.start + split.chunk_size ELSE Len(split.tokens)
         chunk_tokens == SubSeq(split.tokens, split.start + 1, end)
     IN split' = [split EXCEPT !.chunks = Append(@, chunk_tokens),
                               !.start = end - split.overlap]
  /\ UNCHANGED <<fs, clock, api_key, store, run, runs, clean, indexed, ret, call, chat_vars>>

\* lines 109 and 115: the loop condition fails
SplitSectionReturn ==
  /\ split.pc = "loop"
  /\ ~(split.start < Len(split.tokens))
  /\ split' = [split EXCEPT !.pc = "done"]
  /\ UNCHANGED <<fs, clock, api_key, store, run, runs, clean, indexed, ret, call, chat_vars>>

NextSection ==
  \/ SplitSectionEnter
  \/ SplitSectionStep
  \/ SplitSectionReturn

SpecSection == InitSplit /\ [][NextSection]_vars

----------------------------------------------------------------------------
(* The functions of the chunker, of the embedder and of the query           *)
(* preprocessing called on their own, on any input of a bounded set         *)

MaxTextLen == 2

MaxTexts == 2

DetectTokens ==
  {"Betting", "sportsbook", "Bonus", "Promotions", "privacy", "database",
   "aml", "money", "laundering", "terms", "conditions", "deposit"}

DetectTexts == UNION {[1..n -> DetectTokens] : n \in 0..MaxTextLen}

EmbedInputs == { <<"Betting", "rules">>, <<"deposit">> }

AllReplies == {"ok", "not_found", "error"} \X {"ok", "not_found", "error"}

ChunkLists ==
  {ChunksUpTo([lang |-> "en", name |-> <<"terms", ".txt">>], "en", doc, Len(doc)) :
     doc \in Docs}

CallInputs ==
  {[fn |-> "_detect_document_type", text |-> text] : text \in DetectTexts}
    \cup {[fn |-> "DocumentChunker._detect_document_type", text |-> text] :
            text \in DetectTexts}
    \cup {[fn |-> "embed_text", text |-> text, has_key |-> has_key, replies |-> replies] :
            text \in EmbedInputs, has_key \in BOOLEAN, replies \in AllReplies}
    \cup {[fn |-> "embed_texts", texts |-> texts, has_key |-> has_key, replies |-> replies] :
            texts \in UNION {[1..n -> EmbedInputs] : n \in 0..MaxTexts},
            has_key \in BOOLEAN, replies \in AllReplies}
    \cup {[fn |-> "embed_chunks", chunks |-> chunks, has_key |-> has_key, replies |-> replies] :
            chunks \in ChunkLists, has_key \in BOOLEAN, replies \in AllReplies}
    \cup {[fn |-> "preprocess_query", query |-> query, language |-> language,
           preprocess_type |-> preprocess_type, outcome |-> outcome] :
            query \in BotQueries, language \in QueryLanguages,
            preprocess_type \in PreprocessTypes, outcome \in LlmOutcomes}

InitCalls ==
  /\ fs = <<>>
  /\ clock = 0
  /\ api_key = FALSE
  /\ store = <<>>
  /\ run = Idle
  /\ runs = 0
  /\ clean = FALSE
  /\ indexed = <<>>
  /\ ret = NoRet
  /\ split = NoSplit
  /\ \E input \in CallInputs : call = [pc |-> "input", input |-> input]
  /\ ChatInit

Returns(fn, result) ==
  /\ call.pc = "input"
  /\ call.input.fn = fn
  /\ call' = [pc |-> "done", input |-> call.input, result |-> result]
  /\ UNCHANGED <<fs, clock, api_key, store, run, runs, clean, indexed, ret, split, chat_vars>>

DetectDocumentType ==
  /\ call.pc = "input" /\ call.input.fn = "_detect_document_type"
  /\ Returns("_detect_document_type", _detect_document_type(call.input.text))

LegacyDetectDocumentType ==
  /\ call.pc = "input" /\ call.input.fn = "DocumentChunker._detect_document_type"
  /\ Returns("DocumentChunker._detect_document_type",
             DocumentChunker_detect_document_type(call.input.text))

EmbedText ==
  /\ call.pc = "input" /\ call.input.fn = "embed_text"
  /\ Returns("embed_text",
             embed_text(call.input.text, call.input.has_key, call.input.replies))

EmbedTexts ==
  /\ call.pc = "input" /\ call.input.fn = "embed_texts"
  /\ Returns("embed_texts",
             embed_texts(call.input.texts, call.input.has_key, call.input.replies))

EmbedChunks ==
  /\ call.pc = "input" /\ call.input.fn = "embed_chunks"
  /\ Returns("embed_chunks",
             embed_chunks(call.input.chunks, call.input.has_key, call.input.replies))

PreprocessQuery ==
  /\ call.pc = "input" /\ call.input.fn = "preprocess_query"
  /\ Returns("preprocess_query",
             preprocess_query(call.input.query, call.input.language,
                              call.input.preprocess_type, call.input.outcome))

NextCalls ==
  \/ DetectDocumentType
  \/ LegacyDetectDocumentType
  \/ EmbedText
  \/ EmbedTexts
  \/ EmbedChunks
  \/ PreprocessQuery

SpecCalls == InitCalls /\ [][NextCalls]_vars

----------------------------------------------------------------------------
(* A data directory that also holds files outside its language            *)
(* directories, whose files are deleted and renamed between the runs, and  *)
(* a search that may come at any moment, also while load_documents is at   *)
(* work.  A file directly in the data directory has the directory ".".     *)

MaxTreeRuns == 3

TreePaths ==
  { [lang |-> "en", name |-> <<"terms", ".txt">>],
    [lang |-> "ru", name |-> <<"terms", ".txt">>],
    [lang |-> ".", name |-> <<"test", ".txt">>],
    [lang |-> "de", name |-> <<"terms", ".txt">>],
    [lang |-> "en", name |-> <<"notes", ".md">>] }

\* test_system.py, line 165
DocTest == << <<"Test", "content">> >>

TreeDocs == {DocRules, DocTest}

\* os.remove
DeleteFile(p) ==
  /\ run.pc = "idle"
  /\ p \in DOMAIN fs
  /\ fs' = [q \in DOMAIN fs \ {p} |-> fs[q]]
  /\ clean' = FALSE
  /\ ret' = NoRet
  /\ UNCHANGED <<clock, api_key, store, run, runs, indexed, split, call, chat_vars>>

\* os.rename: the file keeps its lines and its modification time
RenameFile(p, q) ==
  /\ run.pc = "idle"
  /\ p \in DOMAIN fs
  /\ q \notin DOMAIN fs
  /\ fs' = [r \in (DOMAIN fs \ {p}) \cup {q} |-> IF r = q THEN fs[p] ELSE fs[r]]
  /\ clean' = FALSE
  /\ ret' = NoRet
  /\ UNCHANGED <<clock, api_key, store, run, runs, indexed, split, call, chat_vars>>

\* test_system.py, line 167
TestQuery == <<"test">>

\* a search of another caller, at any point of the walk (the store has no lock)
ConcurrentSearch(query_text, replies, top_k) ==
  SearchCall(query_text, replies, top_k, None, None)

TreeReplies == { <<"ok", "ok">>, <<"error", "error">> }

NextTree ==
  \/ \E p \in TreePaths, doc \in TreeDocs : WriteFile(p, doc)
  \/ \E p \in TreePaths : DeleteFile(p)
  \/ \E p, q \in TreePaths : RenameFile(p, q)
  \/ LoadWithin(MaxTreeRuns)
  \/ \E p \in TreePaths : Classify(p)
  \/ \E replies \in TreeReplies : IndexFile(replies)
  \/ ReturnLoad
  \/ ConcurrentSearch(TestQuery, <<"ok", "ok">>, MaxTopK)

SpecTree == Init /\ [][NextTree]_vars

----------------------------------------------------------------------------
(* The admin flow (bot/admin_handler.py) and the handlers of               *)
(* bot/telegram_handler.py that lead to it, in private chats.  The prompts *)
(* directory is a map from a file name to the text of the file.            *)

\* BOT_SYS_PASSWORD
SysPassword == <<"secret">>

\* self.admin_states.get(user_id, 'idle')
AdminState(states, user_id) ==
  IF user_id \in DOMAIN states THEN states[user_id] ELSE "idle"

\* self.admin_states[user_id] = state
SetAdminState(states, user_id, state) ==
  [u \in DOMAIN states \cup {user_id} |-> IF u = user_id THEN state ELSE states[u]]

PromptFile == "system_prompt.txt"

\* f'system_prompt_{timestamp}.txt'
BackupFile(now) == "system_prompt_" \o ToString(now) \o ".txt"

\* lines 49-60: the old file is renamed to its backup, the new text is written
\* to a temporary file that then replaces the target
_save_new_system_prompt(dir, prompt_text, now) ==
  LET backed == IF PromptFile \in DOMAIN dir
                THEN [f \in (DOMAIN dir \ {PromptFile}) \cup {BackupFile(now)} |->
                        IF f = BackupFile(now) THEN dir[PromptFile] ELSE dir[f]]
                ELSE dir
  IN [f \in DOMAIN backed \cup {PromptFile} |->
        IF f = PromptFile THEN prompt_text ELSE backed[f]]

\* lines 22-25
handle_sys_command(states, user_id) ==
  [admin_states |-> SetAdminState(states, user_id, "await_pwd"),
   response |-> "Enter password:"]

\* the flow that accepts every message as the password
handle_admin_message_any_password(states, dir, user_id, message, now) ==
  LET admin_state == AdminState(states, user_id)
  IN IF admin_state = "await_pwd"
     THEN [is_admin_message |-> TRUE,
           response |-> "Password accepted. Send new system prompt:",
           admin_states |-> SetAdminState(states, user_id, "await_prompt"),
           prompt_dir |-> dir]
     ELSE IF admin_state = "await_prompt"
     THEN [is_admin_message |-> TRUE, response |-> "New system prompt saved.",
           admin_states |-> SetAdminState(states, user_id, "idle"),
           prompt_dir |-> _save_new_system_prompt(dir, message, now)]
     ELSE [is_admin_message |-> FALSE, response |-> "",
           admin_states |-> states, prompt_dir |-> dir]

\* lines 27-47
handle_admin_message(states, dir, user_id, message, now) ==
  LET admin_state == AdminState(states, user_id)
  IN IF admin_state = "await_pwd"
     THEN IF message = SysPassword
          THEN [is_admin_message |-> TRUE,
                response |-> "Password accepted. Send new system prompt:",
                admin_states |-> SetAdminState(states, user_id, "await_prompt"),
                prompt_dir |-> dir]
          ELSE [is_admin_message |-> TRUE, response |-> "Incorrect password. Abort.",
                admin_states |-> SetAdminState(states, user_id, "idle"),
                prompt_dir |-> dir]
     ELSE IF admin_state = "await_prompt"
     THEN [is_admin_message |-> TRUE, response |-> "New system prompt saved.",
           admin_states |-> SetAdminState(states, user_id, "idle"),
           prompt_dir |-> _save_new_system_prompt(dir, message, now)]
     ELSE [is_admin_message |-> FALSE, response |-> "",
           admin_states |-> states, prompt_dir |-> dir]

\* telegram_handler.py, lines 116-122
SysCommand(user_id) ==
  /\ run.pc = "idle"
  /\ LET out == handle_sys_command(admin_states, user_id)
     IN /\ admin_states' = out.admin_states
        /\ ret' = [op |-> "sys_command", user_id |-> user_id, reply |-> out.response]
  /\ UNCHANGED <<fs, clock, api_key, store, run, runs, clean, indexed, split, call,
                 prompt_dir, messages, user_languages>>

\* what the language model answers (llm_service, response_formatter)
LlmReply == <<"reply">>

\* telegram_handler.py, lines 124-190: text is update.message.text, detected
\* is what langdetect makes of it
TelegramHandleMessage(user_id, text, detected) ==
  /\ run.pc = "idle"
  /\ LET message_text == Strip(text)
         admin == handle_admin_message(admin_states, prompt_dir, user_id, message_text, clock)
         query_language == IF detected \in {"en", "ru"} THEN detected ELSE "en"
         languages == IF detected \in {"en", "ru"}
                      THEN [u \in DOMAIN user_languages \cup {user_id} |->
                              IF u = user_id THEN query_language ELSE user_languages[u]]
                      ELSE user_languages
         user_language == get_user_language(languages, user_id, query_language)
         said == [op |-> "handle_message", user_id |-> user_id, text |-> text,
                  message_text |-> message_text]
     IN IF admin.is_admin_message
        THEN /\ admin_states' = admin.admin_states
             /\ prompt_dir' = admin.prompt_dir
             /\ ret' = said @@ [is_admin_message |-> TRUE, reply |-> admin.response]
             /\ UNCHANGED <<messages, user_languages>>
        ELSE /\ admin_states' = admin.admin_states
             /\ prompt_dir' = admin.prompt_dir
             /\ user_languages' = languages
             /\ \E out \in get_context_for_query(store, api_key, message_text, query_language,
                                                 <<"ok", "ok">>, <<"ok", "ok">>) :
                  IF out.raised
                  THEN /\ messages' = messages
                       /\ ret' = said @@ [is_admin_message |-> FALSE, raised |-> TRUE,
                                          reply |-> ErrorReply(user_language)]
                  ELSE /\ messages' = add_message(add_message(messages, user_id, "user",
                                                              message_text, clock),
                                                  user_id, "bot", LlmReply, clock)
                       /\ ret' = said @@ [is_admin_message |-> FALSE, raised |-> FALSE,
                                          history |-> get_history(messages, user_id, clock),
                                          reply |-> LlmReply]
  /\ UNCHANGED <<fs, clock, api_key, store, run, runs, clean, indexed, split, call>>

\* a command of another handler (/start, /help, /stats): the admin flow does
\* not see it
OtherCommand(user_id) ==
  /\ run.pc = "idle"
  /\ ret' = [op |-> "command", user_id |-> user_id]
  /\ UNCHANGED <<fs, clock, api_key, store, run, runs, clean, indexed, split, call, chat_vars>>

\* TelegramHandler.handle_callback, lines 204-219
TelegramHandleCallback(user_id, data) ==
  /\ run.pc = "idle"
  /\ LET out == handle_callback(user_languages, messages, user_id, data)
     IN /\ user_languages' = out.user_languages
        /\ messages' = out.messages
        /\ ret' = [op |-> "handle_callback", user_id |-> user_id, data |-> data,
                   answer |-> out.answer]
  /\ UNCHANGED <<fs, clock, api_key, store, run, runs, clean, indexed, split, call,
                 admin_states, prompt_dir>>

\* the instants of the model, in seconds
Instants == {0, 1, Hour + 1}

\* time passes
Tick(now) ==
  /\ now \in Instants
  /\ now > clock
  /\ clock' = now
  /\ UNCHANGED <<fs, api_key, store, run, runs, clean, indexed, ret, split, call, chat_vars>>

Users == {1, 2}

Texts == { <<"secret">>, <<"secret", "\n">>, <<"hello">> }

Detected == {"en", "de"}

InitAdmin ==
  /\ fs = <<>>
  /\ clock = 0
  /\ api_key = FALSE
  /\ store = <<>>
  /\ run = Idle
  /\ runs = 0
  /\ clean = FALSE
  /\ indexed = <<>>
  /\ ret = NoRet
  /\ split = NoSplit
  /\ call = NoCall
  /\ ChatInit

NextAdmin ==
  \/ \E user_id \in Users : SysCommand(user_id)
  \/ \E user_id \in Users, text \in Texts, detected \in Detected :
       TelegramHandleMessage(user_id, text, detected)
  \/ \E user_id \in Users : OtherCommand(user_id)
  \/ \E user_id \in Users, data \in CallbackData : TelegramHandleCallback(user_id, data)
  \/ \E now \in Instants : Tick(now)

SpecAdmin == InitAdmin /\ [][NextAdmin]_vars

----------------------------------------------------------------------------
(* The history on its own: the calls of add_message, get_history and       *)
(* reset_history in any order, for two users, with the clock of the        *)
(* database moving on in between.                                          *)

\* the inserts of one behaviour: enough for a user to pass the limit of 20
MaxMessages == 23

\* the other user writes among the first inserts only
MaxOtherSeq == 2

\* the role of the n-th insert: the handler stores a 'user' message and then
\* the 'bot' reply to it
RoleOf(n) == IF n % 2 = 1 THEN "user" ELSE "bot"

\* the text of the n-th insert: every stored text is different
ContentOf(n) == <<ToString(n)>>

\* HistoryManager.add_message, lines 22-33
AddMessage(user_id, role, content) ==
  /\ messages.seq < MaxMessages
  /\ messages' = add_message(messages, user_id, role, content, clock)
  /\ ret' = [op |-> "add_message", user_id |-> user_id]
  /\ UNCHANGED <<fs, clock, api_key, store, run, runs, clean, indexed, split, call,
                 admin_states, prompt_dir, user_languages>>

\* HistoryManager.get_history, lines 35-55
GetHistory(user_id) ==
  /\ ret' = [op |-> "get_history", user_id |-> user_id, now |-> clock,
             history |-> get_history(messages, user_id, clock)]
  /\ UNCHANGED <<fs, clock, api_key, store, run, runs, clean, indexed, split, call, chat_vars>>

\* HistoryManager.reset_history, lines 57-60
ResetHistory(user_id) ==
  /\ messages' = reset_history(messages, user_id)
  /\ ret' = [op |-> "reset_history", user_id |-> user_id]
  /\ UNCHANGED <<fs, clock, api_key, store, run, runs, clean, indexed, split, call,
                 admin_states, prompt_dir, user_languages>>

\* the instants of the history: the messages of one second, and of more than
\* an hour later
HistoryInstants == {0, Hour + 1}

NextHistory ==
  \/ \E user_id \in Users :
       /\ user_id = 1 \/ messages.seq < MaxOtherSeq
       /\ AddMessage(user_id, RoleOf(messages.seq + 1), ContentOf(messages.seq + 1))
  \/ \E user_id \in Users : GetHistory(user_id)
  \/ \E user_id \in Users : ResetHistory(user_id)
  \/ \E now \in HistoryInstants : Tick(now)

SpecHistory == InitAdmin /\ [][NextHistory]_vars

----------------------------------------------------------------------------
(* Vocabulary of the properties *)

\* the .txt files of the language directories: the files load_documents classifies
TxtFiles(tree) == {p \in DOMAIN tree : EndsWithTxt(p.name)}

\* the files load_documents segments and stores
Indexable(tree) == {p \in TxtFiles(tree) : ~IsPromotions(p.name)}

LoadReturned == ret.op = "load_documents" /\ ~ret.raised

LoadEnded == ret.op = "load_documents"

\* the entry the store holds for a chunk that load_documents stamped with mtime
EntryOf(chunk, mtime) ==
  [id |-> chunk.chunk_id,
   content |-> chunk.content,
   metadata |-> EnrichedMeta(StampMtime(chunk, mtime))]

StoredFor(coll, file_path) ==
  {[id |-> id, content |-> coll[id].document, metadata |-> coll[id].metadata] :
     id \in CollectionGetPath(coll, file_path)}

ChunksOfFile(p) == process_document(fs, p, p.lang)

Reported(files, p, status) ==
  \E i \in 1..Len(files) : files[i].path = p /\ files[i].status = status

TimesReported(files, p) == Cardinality({i \in 1..Len(files) : files[i].path = p})

----------------------------------------------------------------------------
(* C1.  Idempotent reindexing: a load_documents run that follows a          *)
(* completed run, with no write to the tree and no upsert in between,       *)
(* reports added = 0 and updated = 0, counts every .txt file as skipped and *)
(* leaves the store as it was.                                              *)
(* The code breaks it: en/terms.txt and ru/terms.txt get the same chunk     *)
(* ids (C3), each run's upsert of one replaces the entries of the other,    *)
(* and every run finds no entry for one of the two paths and adds it again. *)

C1_IdempotentReindex ==
  (LoadReturned /\ ret.after_clean) =>
     /\ ret.added = 0
     /\ ret.updated = 0
     /\ ret.skipped = Cardinality(TxtFiles(fs))
     /\ ~ret.store_changed

----------------------------------------------------------------------------
(* C2.  Change detection: when load_documents ends, every file that an      *)
(* earlier run indexed and whose mtime has changed since is reported as     *)
(* updated, and the entries stored for its path are exactly the chunks of   *)
(* its current content, stamped with the current mtime (so their number is  *)
(* the new chunk count).                                                    *)
(* The code breaks it: a file rewritten to blank lines makes the run raise  *)
(* after the delete (C4), and files of the same name in en/ and ru/ replace *)
(* each other's entries (C3).                                               *)

C2_ChangeDetection ==
  LoadEnded =>
    \A p \in Indexable(fs) \cap DOMAIN ret.pre_indexed :
      ret.pre_indexed[p] # fs[p].mtime =>
        /\ ~ret.raised
        /\ Reported(ret.files, p, "updated")
        /\ StoredFor(store, p) =
             {EntryOf(ChunksOfFile(p)[i], fs[p].mtime) : i \in 1..Len(ChunksOfFile(p))}
        /\ Cardinality(CollectionGetPath(store, p)) = Len(ChunksOfFile(p))

----------------------------------------------------------------------------
(* C3.  Chunk ids are unique: two distinct chunks of the files of one tree  *)
(* (another file, another line or another segment) have different ids, and  *)
(* so after a run that returned every file it added or updated has as many  *)
(* entries in the store as it has chunks.                                   *)
(* The code breaks it: the id is built from the file name without its       *)
(* directory, so en/terms.txt and ru/terms.txt share terms_L1_S0.           *)

C3_ChunkIdsUnique ==
  /\ \A p, q \in Indexable(fs) :
       \A i \in 1..Len(ChunksOfFile(p)), j \in 1..Len(ChunksOfFile(q)) :
         (p # q \/ i # j) => ChunksOfFile(p)[i].chunk_id # ChunksOfFile(q)[j].chunk_id
  /\ LoadReturned =>
       \A i \in 1..Len(ret.files) :
         ret.files[i].status \in {"added", "updated"} =>
           Cardinality(CollectionGetPath(store, ret.files[i].path)) = ret.files[i].chunks

----------------------------------------------------------------------------
(* C4.  Failure isolation: a failure of the segmentation, embedding or      *)
(* upsert of one file does not end load_documents; the run goes on with the *)
(* files after it and returns its result.                                   *)
(* The code breaks it: nothing in load_documents or in its callers catches, *)
(* so the exception leaves the run with the later files not visited.        *)

C4_FailureIsolation == LoadEnded => ~ret.raised

----------------------------------------------------------------------------
(* C5.  All chunks that process_document makes of one file carry the same   *)
(* document_type.                                                           *)
(* The code breaks it: _detect_document_type is called on each segment's    *)
(* own content.                                                             *)

C5_OneTypePerDocument ==
  \A p \in Indexable(fs) :
    \A i, j \in 1..Len(ChunksOfFile(p)) :
      ChunksOfFile(p)[i].document_type = ChunksOfFile(p)[j].document_type

----------------------------------------------------------------------------
(* C6.  Threshold enforcement: every entry a search returns has similarity  *)
(* at least the threshold; there are at most top_k of them, and an entry    *)
(* the query found that reaches the threshold is returned.                  *)

SimilarityTo(query_embedding, id) ==
  100 - CosDistance(query_embedding.dir, store[id].embedding.dir)

C6_ThresholdEnforced ==
  (ret.op = "search" /\ ~ret.raised) =>
     /\ \A i \in 1..Len(ret.results) : ret.results[i].similarity >= SimilarityThreshold
     /\ Len(ret.results) <= ret.top_k
     /\ \A i \in 1..Len(ret.results) :
          \E id \in DOMAIN store :
             /\ store[id].document = ret.results[i].content
             /\ store[id].metadata = ret.results[i].metadata
             /\ SimilarityTo(ret.query, id) = ret.results[i].similarity

\* a search that returned an entry exactly at the threshold and fewer than top_k
\* entries, because it dropped a matching entry below the threshold
C6_Witness ==
  /\ ret.op = "search" /\ ~ret.raised
  /\ Len(ret.results) = 1 /\ ret.top_k = 2
  /\ ret.results[1].similarity = SimilarityThreshold
  /\ \E id \in DOMAIN store :
       /\ WhereHolds(store[id].metadata, _format_filters(ret.language, ret.document_type))
       /\ SimilarityTo(ret.query, id) < SimilarityThreshold

----------------------------------------------------------------------------
(* C7.  A .txt file whose name contains "promotions" (in any case) is       *)
(* reported as skipped by every load_documents run that returns, is never   *)
(* handed to the chunker and the embedder, and no entry that load_documents *)
(* stored (an entry with an mtime) has its path.                            *)

\* the file names of the model that contain "promotions" in some case
PromotionsName(filename) ==
  \E i \in 1..Len(filename) : filename[i] \in {"promotions", "Promotions"}

PromotionFiles(tree) == {p \in TxtFiles(tree) : PromotionsName(p.name)}

C7_PromotionsSkipped ==
  /\ LoadReturned =>
       \A p \in PromotionFiles(fs) :
         Reported(ret.files, p, "skipped") /\ TimesReported(ret.files, p) = 1
  /\ run.pc = "walk" =>
       /\ \A i \in 1..Len(run.pending) : ~PromotionsName(run.pending[i].path.name)
       /\ \A i \in 1..Len(run.files) :
            PromotionsName(run.files[i].path.name) => run.files[i].status = "skipped"
  /\ \A id \in DOMAIN store :
       PromotionsName(store[id].metadata.path.name)
         => "mtime" \notin DOMAIN store[id].metadata
  /\ \A p \in DOMAIN indexed : ~PromotionsName(p.name)

\* a run returned with the promotions file skipped although the store holds
\* (directly upserted) entries of that path and another file was indexed
C7_Witness ==
  /\ LoadReturned
  /\ PromotionFiles(fs) # {}
  /\ \E p \in PromotionFiles(fs) : CollectionGetPath(store, p) # {}
  /\ ret.added + ret.updated >= 1

----------------------------------------------------------------------------
(* C8.  Per-file classification.  The step of load_documents that visits an *)
(* indexable file p adds one to exactly one counter: to added, leaving the  *)
(* store alone, when the store has no entry for p; to updated, after        *)
(* deleting the entries of p, when the entries of p record another mtime    *)
(* than the file has; to skipped, with no delete and nothing left to        *)
(* segment, embed or upsert, when they record the file's mtime.  A run that *)
(* returns reports every .txt file once.                                    *)

EntriesAt(file_path) == {id \in DOMAIN store : store[id].metadata.path = file_path}

RecordedMtimes(file_path) ==
  {IF "mtime" \in DOMAIN store[id].metadata THEN store[id].metadata.mtime ELSE NoMtime :
     id \in EntriesAt(file_path)}

Visits(p) ==
  /\ run.pc = "walk" /\ run'.pc = "walk"
  /\ p \notin run.visited /\ p \in run'.visited

C8_ClassifyStep ==
  \A p \in Indexable(fs) :
    Visits(p) =>
      /\ run'.added + run'.updated + run'.skipped = run.added + run.updated + run.skipped + 1
      /\ EntriesAt(p) = {} =>
           /\ run'.added = run.added + 1
           /\ store' = store
           /\ run'.pending = <<[path |-> p, mtime |-> fs[p].mtime, status |-> "added"]>>
      /\ (EntriesAt(p) # {} /\ fs[p].mtime \notin RecordedMtimes(p)) =>
           /\ run'.updated = run.updated + 1
           /\ DOMAIN store' = DOMAIN store \ EntriesAt(p)
           /\ \A id \in DOMAIN store' : store'[id] = store[id]
           /\ run'.pending = <<[path |-> p, mtime |-> fs[p].mtime, status |-> "updated"]>>
      /\ (EntriesAt(p) # {} /\ RecordedMtimes(p) = {fs[p].mtime}) =>
           /\ run'.skipped = run.skipped + 1
           /\ store' = store
           /\ run'.pending = <<>>
           /\ run'.files = Append(run.files, [path |-> p, status |-> "skipped", chunks |-> 0])

C8_OneOutcomePerFile ==
  LoadReturned =>
    /\ \A p \in TxtFiles(fs) :
         /\ TimesReported(ret.files, p) = 1
         /\ \E i \in 1..Len(ret.files) :
               ret.files[i].path = p /\ ret.files[i].status \in {"added", "updated", "skipped"}
    /\ ret.added + ret.updated + ret.skipped = Cardinality(TxtFiles(fs))

C8_Classification == [][C8_ClassifyStep]_vars /\ []C8_OneOutcomePerFile

\* a run returned that found the file of an earlier run changed, deleted its two
\* entries and stored the one chunk of the new content
C8_Witness ==
  /\ LoadReturned
  /\ ret.updated = 1 /\ ret.added = 0 /\ ret.skipped = 0
  /\ \E p \in Indexable(fs) :
       /\ Reported(ret.files, p, "updated")
       /\ p \in DOMAIN ret.pre_indexed /\ ret.pre_indexed[p] < fs[p].mtime
       /\ RecordedMtimes(p) = {fs[p].mtime}
       /\ Cardinality(DOMAIN store) = 1

----------------------------------------------------------------------------
(* C9.  Every entry of the store has metadata with the source path and the  *)
(* modification time of its file.                                           *)
(* The code breaks it: only load_documents stamps the mtime; the records    *)
(* that embed_chunks builds from process_all_documents have none.           *)

C9_PathAndMtime ==
  \A id \in DOMAIN store : {"path", "mtime"} \subseteq DOMAIN store[id].metadata

----------------------------------------------------------------------------
(* C10.  Long-line splitting with 0 <= overlap < chunk_size: N tokens with  *)
(* N > chunk_size give ceil((N - overlap) / (chunk_size - overlap))         *)
(* windows, each of at most chunk_size tokens and all but the last of       *)
(* exactly chunk_size; consecutive windows share exactly overlap tokens;    *)
(* the windows cover the tokens in order; N <= chunk_size gives the input   *)
(* as the one window.                                                       *)

CeilDiv(a, b) == (a + b - 1) \div b

Range(seq) == {seq[i] : i \in 1..Len(seq)}

\* the windows laid end to end, each without the tokens it repeats
RECURSIVE Glue(_, _)
Glue(segments, overlap) ==
  IF segments = <<>> THEN <<>>
  ELSE IF Len(segments) = 1 THEN segments[1]
  ELSE Glue(SubSeq(segments, 1, Len(segments) - 1), overlap)
         \o SubSeq(segments[Len(segments)], overlap + 1, Len(segments[Len(segments)]))

C10_LongLineSplit ==
  split.pc = "done" =>
    LET N == Len(split.tokens)
        size == split.chunk_size
        over == split.overlap
        segs == split.segments
    IN /\ N <= size => segs = <<split.tokens>>
       /\ N > size =>
            /\ Len(segs) = CeilDiv(N - over, size - over)
            /\ \A k \in 1..Len(segs) : Len(segs[k]) <= size
            /\ \A k \in 1..(Len(segs) - 1) : Len(segs[k]) = size
            /\ \A k \in 1..(Len(segs) - 1) :
                 /\ SubSeq(segs[k], size - over + 1, size) = SubSeq(segs[k + 1], 1, over)
                 /\ Cardinality(Range(segs[k]) \cap Range(segs[k + 1])) = over
            /\ Glue(segs, over) = split.tokens

\* a line split into three windows or more, with an overlap and a shorter last window
C10_Witness ==
  /\ split.pc = "done"
  /\ split.overlap > 0
  /\ Len(split.segments) >= 3
  /\ Len(split.segments[Len(split.segments)]) < split.chunk_size

----------------------------------------------------------------------------
(* C11.  get_multilingual_context returns a map whose keys are exactly the  *)
(* languages (en, ru) whose search returned one result or more, each key    *)
(* once and en before ru; each key is mapped to the context built from the  *)
(* results of its own language, which is not the sentinel, and all these    *)
(* results are entries of that language; a language without a qualifying    *)
(* result has no key.                                                       *)

LangResults(lang) == IF lang = "en" THEN ret.en_results ELSE ret.ru_results

KeysOf(dict) == {dict[i][1] : i \in 1..Len(dict)}

C11_MultilingualContext ==
  (ret.op = "get_multilingual_context" /\ ~ret.raised) =>
     /\ KeysOf(ret.contexts) = {lang \in {"en", "ru"} : LangResults(lang) # <<>>}
     /\ Len(ret.contexts) = Cardinality(KeysOf(ret.contexts))
     /\ \A i, j \in 1..Len(ret.contexts) :
          (ret.contexts[i][1] = "ru" /\ ret.contexts[j][1] = "en") => j < i
     /\ \A i \in 1..Len(ret.contexts) :
          LET lang == ret.contexts[i][1]
          IN /\ ret.contexts[i][2] = FormatContext(LangResults(lang))
             /\ ret.contexts[i][2] # Sentinel
             /\ \A k \in 1..Len(LangResults(lang)) :
                  LangResults(lang)[k].metadata.language = lang

\* the map has the Russian context only, although the store has English
\* entries: none of them reached the threshold
C11_Witness ==
  /\ ret.op = "get_multilingual_context" /\ ~ret.raised
  /\ KeysOf(ret.contexts) = {"ru"}
  /\ ret.en_results = <<>> /\ ret.ru_results # <<>>
  /\ \E id \in DOMAIN store : store[id].metadata.language = "en"

----------------------------------------------------------------------------
(* C12.  Language fallback order.  The context handle_message hands to the  *)
(* language model is, with every e-mail address in it replaced by           *)
(* "[email removed]", the context of the query's own language when the map  *)
(* of get_multilingual_context has one; otherwise that of the first         *)
(* language, en before ru, that has one; otherwise the empty string.  It is *)
(* a function of the map and of the query's language alone.                 *)
(* As first stated, without the replacement of the addresses, the property  *)
(* does not hold: sanitize_emails rewrites the chosen context.              *)

HasContext(contexts, lang) == \E i \in 1..Len(contexts) : contexts[i][1] = lang

ContextOf(contexts, lang) ==
  (CHOOSE pair \in {contexts[i] : i \in 1..Len(contexts)} : pair[1] = lang)[2]

FallbackContext(contexts, query_language) ==
  IF HasContext(contexts, query_language) THEN ContextOf(contexts, query_language)
  ELSE IF HasContext(contexts, "en") THEN ContextOf(contexts, "en")
  ELSE IF HasContext(contexts, "ru") THEN ContextOf(contexts, "ru")
  ELSE <<>>

WithoutEmails(text) ==
  [i \in 1..Len(text) |->
     IF text[i] = "support@spartans.com" THEN "[email removed]" ELSE text[i]]

C12_FallbackOrder ==
  (ret.op = "handle_message" /\ ~ret.raised) =>
     ret.doc_context = WithoutEmails(FallbackContext(ret.contexts, ret.query_language))

\* the statement without the replacement of the addresses
C12_ContextUnchanged ==
  (ret.op = "handle_message" /\ ~ret.raised) =>
     ret.doc_context = FallbackContext(ret.contexts, ret.query_language)

\* a Russian query answered with the English context, the only one of the
\* map, in which an address was replaced
C12_Witness ==
  /\ ret.op = "handle_message" /\ ~ret.raised
  /\ ret.query_language = "ru"
  /\ KeysOf(ret.contexts) = {"en"}
  /\ ret.doc_context # <<>>
  /\ ret.doc_context # FallbackContext(ret.contexts, ret.query_language)
  /\ \E i \in 1..Len(ret.doc_context) : ret.doc_context[i] = "[email removed]"

----------------------------------------------------------------------------
(* C13.  For every result that get_context_for_llm returns for an entry     *)
(* that load_documents indexed with the LineChunker (an entry with an       *)
(* mtime), block i of the context, i the place of the result, has the       *)
(* descriptor "Line <n>" of the entry's line in its heading, followed by    *)
(* the entry's content.                                                     *)
(* The code breaks it: the chunk's section is kept in the record of         *)
(* embed_chunks but never stored (add_embeddings stores the metadata only,  *)
(* which has no section), so every heading has the descriptor "-".          *)

HeadingWith(i, section) ==
  "Istochnik " \o ToString(i) \o " (razdel: " \o section \o "):\n"

BlockAt(context, k, heading, content) ==
  /\ k + Len(content) + 1 <= Len(context)
  /\ context[k] = heading
  /\ SubSeq(context, k + 1, k + Len(content)) = content
  /\ context[k + Len(content) + 1] = "\n"

C13_SectionInBlock ==
  (ret.op = "get_context_for_llm" /\ ~ret.raised) =>
     \A i \in 1..Len(ret.results) :
       "mtime" \in DOMAIN ret.results[i].metadata =>
          \E k \in 1..Len(ret.context) :
             BlockAt(ret.context, k,
                     HeadingWith(i, "Line " \o ToString(ret.results[i].metadata.line_number)),
                     ret.results[i].content)

----------------------------------------------------------------------------
(* C14.  get_context_for_llm returns the sentinel exactly when the search   *)
(* returned no result; with n >= 1 results it returns n blocks, numbered    *)
(* 1..n in the order of the results, each with the content of its result,   *)
(* and that is not the sentinel; it raises only when the embedding backend  *)
(* fails, never because no entry reaches the threshold.                     *)

BackendFails(replies) ==
  replies[1] = "error" \/ (replies[1] = "not_found" /\ replies[2] # "ok")

\* where block i starts in a context of these results
RECURSIVE BlockStart(_, _)
BlockStart(results, i) ==
  IF i = 1 THEN 1
  ELSE BlockStart(results, i - 1) + Len(results[i - 1].content) + 3

C14_SentinelIffNoResults ==
  ret.op = "get_context_for_llm" =>
     /\ ret.raised => (api_key /\ BackendFails(ret.replies))
     /\ ~ret.raised =>
          /\ (ret.context = Sentinel) <=> (ret.results = <<>>)
          /\ ret.results # <<>> =>
               /\ Len(ret.context) = BlockStart(ret.results, Len(ret.results) + 1) - 2
               /\ \A i \in 1..Len(ret.results) :
                    \E section \in {"-", "Line 1", "Line 2", "Line 3"} :
                       BlockAt(ret.context, BlockStart(ret.results, i),
                               HeadingWith(i, section), ret.results[i].content)
               /\ \A i \in 1..(Len(ret.results) - 1) :
                    ret.context[BlockStart(ret.results, i + 1) - 1] = "\n"

\* the backend answered, the store has entries of the language asked for, and
\* none of them reached the threshold: the sentinel
C14_Witness ==
  /\ ret.op = "get_context_for_llm" /\ ~ret.raised
  /\ api_key
  /\ ret.context = Sentinel /\ ret.results = <<>>
  /\ \E id \in DOMAIN store : store[id].metadata.language = ret.language

----------------------------------------------------------------------------
(* C15.  The filters of VectorStore.search are conjunctive: every entry     *)
(* returned has the language asked for, when one is given, and the          *)
(* document_type asked for, when one is given; and the metadata excludes    *)
(* nothing else: the search returns as many entries as top_k allows of      *)
(* those that satisfy the given filters and reach the threshold (of all     *)
(* entries that reach it, when no filter is given).                         *)

Satisfies(meta, language, document_type) ==
  /\ language # None => meta.language = language
  /\ document_type # None => meta.document_type = document_type

Qualifying(query_embedding, language, document_type) ==
  {id \in DOMAIN store :
     /\ Satisfies(store[id].metadata, language, document_type)
     /\ SimilarityTo(query_embedding, id) >= SimilarityThreshold}

Min(a, b) == IF a < b THEN a ELSE b

C15_ConjunctiveFilters ==
  (ret.op = "search" /\ ~ret.raised) =>
     /\ \A i \in 1..Len(ret.results) :
          Satisfies(ret.results[i].metadata, ret.language, ret.document_type)
     /\ Len(ret.results) =
          Min(ret.top_k, Cardinality(Qualifying(ret.query, ret.language, ret.document_type)))

\* both filters given: the entry returned satisfies both, and a nearer entry
\* of the same language and another document type is left out
C15_Witness ==
  /\ ret.op = "search" /\ ~ret.raised
  /\ ret.language # None /\ ret.document_type # None
  /\ Len(ret.results) = 1
  /\ \E id \in DOMAIN store :
       /\ store[id].metadata.language = ret.language
       /\ store[id].metadata.document_type # ret.document_type
       /\ SimilarityTo(ret.query, id) > ret.results[1].similarity

----------------------------------------------------------------------------
(* C16.  VectorStore.search returns at most top_k entries, in descending    *)
(* order of similarity, and each of them is one of the top_k most similar   *)
(* entries among those that satisfy the filters: fewer than top_k of those  *)
(* are strictly more similar.  The threshold only removes entries of that   *)
(* list; it brings in none from below it.                                   *)

Ranked(result, language, document_type, top_k) ==
  \E id \in DOMAIN store :
     /\ store[id].document = result.content
     /\ store[id].metadata = result.metadata
     /\ SimilarityTo(ret.query, id) = result.similarity
     /\ Satisfies(store[id].metadata, language, document_type)
     /\ Cardinality({other \in DOMAIN store :
                       /\ Satisfies(store[other].metadata, language, document_type)
                       /\ SimilarityTo(ret.query, other) > result.similarity}) < top_k

C16_TopKRanked ==
  (ret.op = "search" /\ ~ret.raised) =>
     /\ Len(ret.results) <= ret.top_k
     /\ \A i, j \in 1..Len(ret.results) :
          i < j => ret.results[i].similarity >= ret.results[j].similarity
     /\ \A i \in 1..Len(ret.results) :
          Ranked(ret.results[i], ret.language, ret.document_type, ret.top_k)

\* top_k = 1: the most similar entry is returned and a second entry that
\* reaches the threshold is not
C16_Witness ==
  /\ ret.op = "search" /\ ~ret.raised
  /\ ret.top_k = 1 /\ Len(ret.results) = 1
  /\ \E id \in DOMAIN store :
       /\ Satisfies(store[id].metadata, ret.language, ret.document_type)
       /\ SimilarityTo(ret.query, id) >= SimilarityThreshold
       /\ SimilarityTo(ret.query, id) < ret.results[1].similarity

----------------------------------------------------------------------------
(* C17.  _detect_document_type, of the LineChunker and of the             *)
(* DocumentChunker alike, is first-match over a fixed priority list,   *)
(* on the lower-cased text and on substrings: sportsbook / betting give     *)
(* sportsbook_rules; else bonus / promotion give bonus_rules; else          *)
(* privacy / data give privacy_policy; else aml / money laundering give     *)
(* aml_policy; else terms / conditions give terms; else general.  The       *)
(* result is the category of the first rule with a keyword in the text,     *)
(* and it is never "promotions".                                            *)

Rules ==
  << [keywords |-> {"sportsbook", "betting"}, type |-> "sportsbook_rules"],
     [keywords |-> {"bonus", "promotion"}, type |-> "bonus_rules"],
     [keywords |-> {"privacy", "data"}, type |-> "privacy_policy"],
     [keywords |-> {"aml", "money laundering"}, type |-> "aml_policy"],
     [keywords |-> {"terms", "conditions"}, type |-> "terms"] >>

RuleApplies(r, text) == \E kw \in Rules[r].keywords : Contains(LowerText(text), kw)

CategoryOf(text) ==
  IF \E r \in 1..Len(Rules) : RuleApplies(r, text)
  THEN Rules[CHOOSE r \in 1..Len(Rules) :
               RuleApplies(r, text) /\ \A q \in 1..(r - 1) : ~RuleApplies(q, text)].type
  ELSE "general"

C17_FirstMatchPriority ==
  (call.pc = "done" /\ call.input.fn \in {"_detect_document_type",
                                           "DocumentChunker._detect_document_type"}) =>
     /\ call.result = CategoryOf(call.input.text)
     /\ call.result # "promotions"

\* a text with "Promotions" and "terms": the substring "promotion" of the
\* lower-cased text wins over "terms"
C17_Witness ==
  /\ call.pc = "done" /\ call.input.fn = "_detect_document_type"
  /\ call.input.text = <<"terms", "Promotions">>
  /\ call.result = "bonus_rules"

----------------------------------------------------------------------------
(* C18.  Degraded mode: without OPENAI_API_KEY, embed_text, embed_texts and *)
(* embed_chunks make no request to the backend and do not raise; n texts    *)
(* give n vectors, each of dimension 1536 and zero in every component;      *)
(* embed_chunks gives one record per chunk, in order, with the id and the   *)
(* content of the chunk.                                                    *)

IsZeroVector(v) == v.dim = 1536 /\ v.dir = 0

C18_DegradedMode ==
  (call.pc = "done" /\ call.input.fn \in {"embed_text", "embed_texts", "embed_chunks"}
     /\ ~call.input.has_key) =>
     /\ ~call.result.raised
     /\ call.result.calls = <<>>
     /\ call.input.fn = "embed_text" => IsZeroVector(call.result.vector)
     /\ call.input.fn = "embed_texts" =>
          /\ Len(call.result.vectors) = Len(call.input.texts)
          /\ \A i \in 1..Len(call.result.vectors) : IsZeroVector(call.result.vectors[i])
     /\ call.input.fn = "embed_chunks" =>
          /\ Len(call.result.records) = Len(call.input.chunks)
          /\ \A i \in 1..Len(call.input.chunks) :
               /\ call.result.records[i].chunk_id = call.input.chunks[i].chunk_id
               /\ call.result.records[i].content = call.input.chunks[i].content
               /\ IsZeroVector(call.result.records[i].embedding)

\* two chunks embedded without a key
C18_Witness ==
  /\ call.pc = "done" /\ call.input.fn = "embed_chunks"
  /\ ~call.input.has_key
  /\ Len(call.input.chunks) = 2
  /\ Len(call.result.records) = 2

----------------------------------------------------------------------------
(* C19.  Embedding model fallback: with a key, the first request names the  *)
(* configured model; when the backend rejects it as not found, exactly one  *)
(* more request is made, with text-embedding-ada-002, and its vectors are   *)
(* returned; when that request fails too, or when the first fails with      *)
(* another error, the error reaches the caller and no vector is returned.   *)
(* One call never makes more than two requests.                             *)

C19_ModelFallback ==
  (call.pc = "done" /\ call.input.fn = "embed_texts" /\ call.input.has_key) =>
     LET replies == call.input.replies
         out == call.result
     IN /\ Len(out.calls) <= 2
        /\ replies[1] = "ok" =>
             /\ out.calls = <<"text-embedding-3-small">>
             /\ ~out.raised /\ Len(out.vectors) = Len(call.input.texts)
        /\ replies[1] = "not_found" =>
             /\ out.calls = <<"text-embedding-3-small", "text-embedding-ada-002">>
             /\ replies[2] = "ok" =>
                  (~out.raised /\ Len(out.vectors) = Len(call.input.texts))
             /\ replies[2] # "ok" => (out.raised /\ out.vectors = <<>>)
        /\ replies[1] = "error" =>
             /\ out.calls = <<"text-embedding-3-small">>
             /\ out.raised /\ out.vectors = <<>>
        /\ ~out.raised =>
             \A i \in 1..Len(out.vectors) : out.vectors[i] = BackendVector(call.input.texts[i])

\* the configured model was rejected and the default model answered
C19_Witness ==
  /\ call.pc = "done" /\ call.input.fn = "embed_texts" /\ call.input.has_key
  /\ call.input.replies = <<"not_found", "ok">>
  /\ Len(call.result.calls) = 2
  /\ ~call.result.raised
  /\ Len(call.result.vectors) = 2

----------------------------------------------------------------------------
(* C20.  Under the deepseek strategy, preprocess_query returns the query    *)
(* unchanged and raises nothing whenever the chat-completion call fails or  *)
(* gives no usable answer: request error, error payload, answer without     *)
(* choices, answer with an empty list of choices.                           *)
(* The code breaks it: with "choices": [] the key is in the response and    *)
(* response['choices'][0] raises IndexError.                                *)

Unusable(outcome) ==
  \/ outcome.kind = "request_exception"
  \/ /\ outcome.kind = "json"
     /\ ("choices" \notin DOMAIN outcome.body \/ outcome.body.choices = <<>>)

C20_FallbackToQuery ==
  (call.pc = "done" /\ call.input.fn = "preprocess_query"
     /\ call.input.preprocess_type = "deepseek" /\ Unusable(call.input.outcome)) =>
     /\ ~call.result.raised
     /\ call.result.value = call.input.query

----------------------------------------------------------------------------
(* C21: load_documents visits exactly the .txt files that lie directly in  *)
(* the language directories en and ru (a directory that is missing is      *)
(* passed over).  Every entry of the store comes from such a file and its  *)
(* language is the name of the directory of its file; a file directly in   *)
(* the data directory or in another directory, and a file that is not a    *)
(* .txt file, is neither stored nor reported nor counted.                  *)

InLanguageDir(p) == p.lang = "en" \/ p.lang = "ru"

FlatTxtFiles(tree) == {p \in DOMAIN tree : InLanguageDir(p) /\ p.name[Len(p.name)] = ".txt"}

PathsIn(files) == {files[i].path : i \in 1..Len(files)}

C21_LanguageDirectories ==
  /\ \A id \in DOMAIN store :
       LET meta == store[id].metadata
       IN /\ InLanguageDir(meta.path)
          /\ meta.path.name[Len(meta.path.name)] = ".txt"
          /\ meta.language = meta.path.lang
  /\ run.pc = "walk" =>
       /\ PathsIn(run.files) \cup PathsIn(run.pending) \subseteq FlatTxtFiles(fs)
       /\ run.added + run.updated + run.skipped
            = Cardinality(FlatTxtFiles(fs) \cap run.visited)
  /\ (ret.op = "load_documents" /\ ~ret.raised) =>
       /\ PathsIn(ret.files) = FlatTxtFiles(fs)
       /\ ret.added + ret.updated + ret.skipped = Cardinality(FlatTxtFiles(fs))

\* a returned run over a tree with a .txt file outside the language
\* directories and one file in en, whose chunks are in the store; ru is missing
C21_Witness ==
  /\ ret.op = "load_documents" /\ ~ret.raised
  /\ \E p \in DOMAIN fs : ~InLanguageDir(p) /\ p.name[Len(p.name)] = ".txt"
  /\ \E p \in DOMAIN fs : p.lang = "en" /\ EntriesAt(p) # {}
  /\ ~\E p \in DOMAIN fs : p.lang = "ru"
  /\ ret.added = 1

----------------------------------------------------------------------------
(* C22: what test_document_processing expects.  After load_documents has   *)
(* returned for a data directory with a non-empty .txt file directly in    *)
(* it (test.txt), the store holds at least one entry of that file, and a   *)
(* search for 'test' that follows returns a result whose similarity is at  *)
(* least the threshold.                                                    *)

TestFiles ==
  {p \in DOMAIN fs : p.lang = "." /\ p.name[Len(p.name)] = ".txt" /\ fs[p].lines = DocTest}

C22_TestFileIndexed ==
  (clean /\ run.pc = "idle" /\ TestFiles # {}) =>
    /\ \A p \in TestFiles : EntriesAt(p) # {}
    /\ (ret.op = "search" /\ ~ret.raised) =>
         \E i \in 1..Len(ret.results) : ret.results[i].similarity >= SimilarityThreshold

----------------------------------------------------------------------------
(* C23: the result of load_documents.  added + updated + skipped is the    *)
(* number of the .txt files directly in the language directories that      *)
(* exist; files has one record for each of them and as many records of a   *)
(* status as the counter of that status says; a record of an added or      *)
(* updated file carries the number of the chunks of the file, a skipped    *)
(* one carries 0, and chunks_added is the sum over the records.  For an    *)
(* empty tree all the counters are 0 and files is empty.                   *)

WithStatus(files, status) == {i \in 1..Len(files) : files[i].status = status}

RECURSIVE ChunkTotal(_)
ChunkTotal(files) ==
  IF files = <<>> THEN 0 ELSE Head(files).chunks + ChunkTotal(Tail(files))

C23_ResultAccounting ==
  (ret.op = "load_documents" /\ ~ret.raised) =>
    /\ ret.added + ret.updated + ret.skipped = Cardinality(FlatTxtFiles(fs))
    /\ Len(ret.files) = Cardinality(FlatTxtFiles(fs))
    /\ \A p \in FlatTxtFiles(fs) :
         Cardinality({i \in 1..Len(ret.files) : ret.files[i].path = p}) = 1
    /\ Cardinality(WithStatus(ret.files, "added")) = ret.added
    /\ Cardinality(WithStatus(ret.files, "updated")) = ret.updated
    /\ Cardinality(WithStatus(ret.files, "skipped")) = ret.skipped
    /\ \A i \in 1..Len(ret.files) :
         ret.files[i].chunks =
           IF ret.files[i].status = "skipped" THEN 0
           ELSE Len(process_document(fs, ret.files[i].path, ret.files[i].path.lang))
    /\ ret.chunks_added = ChunkTotal(ret.files)
    /\ DOMAIN fs = {} =>
         /\ ret.added = 0 /\ ret.updated = 0 /\ ret.skipped = 0
         /\ ret.chunks_added = 0 /\ ret.files = <<>>

\* a run that returns with an updated file of two chunks, over a tree that
\* also holds a file outside the language directories
C23_Witness ==
  /\ ret.op = "load_documents" /\ ~ret.raised
  /\ ret.updated = 1
  /\ ret.chunks_added = 2
  /\ \E p \in DOMAIN fs : ~InLanguageDir(p)

----------------------------------------------------------------------------
(* C24: ContextBuilder.get_context_for_query does what lines 110-115 of    *)
(* bot/main.py do.  For every query and language it ends as they end: it   *)
(* returns the context of the language when get_multilingual_context has   *)
(* one, else the context of the first language that has one, else the      *)
(* empty string, and it raises only where they raise (a failure of the     *)
(* embedding backend), so that TelegramHandler.handle_message goes on to   *)
(* the language model.                                                     *)

\* what lines 110-115 of bot/main.py come to
MainContexts(query, language, replies_en, replies_ru) ==
  {IF out.raised THEN [raised |-> TRUE]
   ELSE [raised |-> FALSE, value |-> FallbackContext(out.contexts, language)] :
     out \in get_multilingual_context(store, api_key, split_simple(query, language),
                                      25, replies_en, replies_ru)}

C24_ExactCopy ==
  ret.op = "get_context_for_query" =>
    (IF ret.raised THEN [raised |-> TRUE]
     ELSE [raised |-> FALSE, value |-> ret.value])
      \in MainContexts(ret.query, ret.language, ret.replies_en, ret.replies_ru)

----------------------------------------------------------------------------
(* C25: delete before rebuild.  From the moment load_documents has         *)
(* classified a file as updated, the store holds no entry of its path      *)
(* until the new chunks are upserted; when the segmentation, the embedding *)
(* or the upsert of the file fails, the call ends with no entry of the     *)
(* path in the store, and the run that follows classifies the file as      *)
(* added, not as updated.                                                  *)

\* the outcome a run has recorded for a file so far
OutcomeOf(p) ==
  {run.pending[i].status : i \in {k \in 1..Len(run.pending) : run.pending[k].path = p}}
    \cup {run.files[i].status : i \in {k \in 1..Len(run.files) : run.files[k].path = p}}

C25_DeleteBeforeRebuild ==
  /\ (run.pc = "walk" /\ run.pending # <<>> /\ run.pending[1].status = "updated") =>
       EntriesAt(run.pending[1].path) = {}
  /\ (ret.op = "load_documents" /\ ret.raised /\ ret.status = "updated") =>
       EntriesAt(ret.failed) = {}
  /\ run.pc = "walk" =>
       \A f \in run.after_failed :
         (f.status = "updated" /\ f.path \in run.visited) => OutcomeOf(f.path) = {"added"}
  /\ ret.op = "load_documents" =>
       \A f \in ret.after_failed :
         f.status = "updated" =>
           IF ret.raised THEN ret.failed = f.path => ret.status = "added"
           ELSE \A i \in 1..Len(ret.files) :
                  ret.files[i].path = f.path => ret.files[i].status = "added"

\* a run that returns after the run before it failed on an updated file, with
\* the file reported as added
C25_Witness ==
  /\ ret.op = "load_documents" /\ ~ret.raised
  /\ \E f \in ret.after_failed :
       /\ f.status = "updated"
       /\ \E i \in 1..Len(ret.files) :
            ret.files[i].path = f.path /\ ret.files[i].status = "added"
       /\ EntriesAt(f.path) # {}

----------------------------------------------------------------------------
(* C26: atomic visibility of an update.  A search that runs while          *)
(* load_documents is at work (every operation of the store atomic, no      *)
(* lock) finds, for a file that the run updates, either all the entries    *)
(* of the old version or all the entries of the new version: never no      *)
(* entry, a part of them, or entries of both recorded mtimes.              *)

UpdatedInRun == {p \in run.visited : OutcomeOf(p) = {"updated"}}

C26_AtomicUpdate ==
  (ret.op = "search" /\ ~ret.raised /\ run.pc = "walk") =>
    \A p \in UpdatedInRun :
      /\ EntriesAt(p) # {}
      /\ Cardinality(RecordedMtimes(p)) = 1
      /\ RecordedMtimes(p) = {fs[p].mtime} =>
           Cardinality(EntriesAt(p)) = Len(process_document(fs, p, p.lang))

----------------------------------------------------------------------------
(* C27: load_documents removes no entry of a path it does not visit.  The  *)
(* entries of a file that was deleted or renamed stay in the store as they *)
(* are through every step of every later run, and the only entries a step  *)
(* takes out of the store are those whose path is that of a visited file   *)
(* classified as updated.                                                  *)

C27_StepKeepsUnvisited ==
  run.pc = "walk" =>
    /\ \A id \in DOMAIN store :
         store[id].metadata.path \notin DOMAIN fs =>
           id \in DOMAIN store' /\ store'[id] = store[id]
    /\ \A id \in DOMAIN store \ DOMAIN store' :
         /\ run'.pc = "walk"
         /\ store[id].metadata.path \in run'.visited \ run.visited
         /\ run'.updated = run.updated + 1

C27_UnvisitedEntriesKept == [][C27_StepKeepsUnvisited]_vars

----------------------------------------------------------------------------
(* C28: the splitter of the legacy chunker terminates.  Every iteration of *)
(* the loop of DocumentChunker._split_section moves start forward, so that *)
(* the loop is left after at most len(tokens) iterations and the function  *)
(* returns a finite list of chunks, also for a section of more than        *)
(* chunk_size tokens.  (The loop is deterministic in start: an iteration   *)
(* that leaves start where it was is repeated for ever.)                   *)

C28_IterationAdvances ==
  (split.pc = "loop" /\ split'.pc = "loop") => split'.start > split.start

C28_SplitSectionTerminates == [][C28_IterationAdvances]_vars

----------------------------------------------------------------------------
(* C29: the admin flow idle -> await_pwd -> await_prompt of each user.     *)
(* The prompt file is written only by a message of a user who is in        *)
(* await_prompt, and it then holds that message; a user comes to           *)
(* await_prompt only from await_pwd, by a message that is the configured   *)
(* password, and to await_pwd only by their own /sys; the first message    *)
(* of a user in await_pwd ends that state: a wrong password leads to idle  *)
(* and writes nothing; the message that is saved leads to idle; a message  *)
(* of a user in idle is not taken by the admin flow; a step of one user    *)
(* leaves the state of every other user as it is.                          *)

FlowState(u) == IF u \in DOMAIN admin_states THEN admin_states[u] ELSE "idle"

\* the step is the handling of a text message of user u
MessageOf(u) == ret'.op = "handle_message" /\ ret'.user_id = u /\ clock' = clock

C29_FlowStep ==
  /\ \A u \in Users :
       /\ (FlowState(u)' = "await_prompt" /\ FlowState(u) # "await_prompt") =>
            /\ FlowState(u) = "await_pwd"
            /\ MessageOf(u)
            /\ ret'.message_text = <<"secret">>
       /\ (FlowState(u)' = "await_pwd" /\ FlowState(u) # "await_pwd") =>
            ret'.op = "sys_command" /\ ret'.user_id = u
       /\ FlowState(u)' # FlowState(u) =>
            ret'.op \in {"sys_command", "handle_message"} /\ ret'.user_id = u
       /\ (MessageOf(u) /\ FlowState(u) = "await_pwd") =>
            /\ ret'.is_admin_message
            /\ FlowState(u)' = IF ret'.message_text = <<"secret">> THEN "await_prompt"
                               ELSE "idle"
            /\ prompt_dir' = prompt_dir
       /\ (MessageOf(u) /\ FlowState(u) = "await_prompt") =>
            /\ ret'.is_admin_message
            /\ FlowState(u)' = "idle"
            /\ prompt_dir'["system_prompt.txt"] = ret'.message_text
       /\ (MessageOf(u) /\ FlowState(u) = "idle") =>
            /\ ~ret'.is_admin_message
            /\ FlowState(u)' = "idle"
            /\ prompt_dir' = prompt_dir
  /\ prompt_dir' # prompt_dir =>
       /\ ret'.op = "handle_message" /\ clock' = clock
       /\ FlowState(ret'.user_id) = "await_prompt"

C29_AdminFlow == [][C29_FlowStep]_vars

\* one user has saved a prompt and is back in idle while the other user, who
\* gave a wrong password after /sys, is in idle too and the file holds the
\* saved message
C29_Witness ==
  /\ ret.op = "handle_message" /\ ret.is_admin_message
  /\ ret.reply = "Incorrect password. Abort."
  /\ "system_prompt.txt" \in DOMAIN prompt_dir
  /\ prompt_dir["system_prompt.txt"] = <<"hello">>
  /\ \A u \in Users : u \in DOMAIN admin_states /\ admin_states[u] = "idle"

\* the stored messages of a user, in the order of their insertion
StoredOf(db, u) ==
  LET mine(row) == row.user_id = u
  IN SelectSeq(db.rows, mine)

\* what get_history hands out of a stored message
Shown(rows) == [i \in 1..Len(rows) |-> [role |-> rows[i].role, content |-> rows[i].content]]

\* the last n entries of a sequence
LastOf(seq, n) == SubSeq(seq, Len(seq) - n + 1, Len(seq))

\* the ids a step takes out of the table
RemovedIds == {messages.rows[i].id : i \in DOMAIN messages.rows}
                \ {messages'.rows[i].id : i \in DOMAIN messages'.rows}

C30_Cap == \A u \in Users : Len(StoredOf(messages', u)) <= 20

C30_RemovesOldestOfCaller ==
  /\ \A u \in Users \ {ret'.user_id} : StoredOf(messages', u) = StoredOf(messages, u)
  /\ ret'.op = "add_message" =>
       \E n \in 0..Len(StoredOf(messages, ret'.user_id)) :
          /\ StoredOf(messages', ret'.user_id) =
               LastOf(StoredOf(messages, ret'.user_id), n)
               \o <<messages'.rows[Len(messages'.rows)]>>
          /\ messages'.rows[Len(messages'.rows)].id = messages'.seq
          /\ n < Len(StoredOf(messages, ret'.user_id)) => n + 1 = 20

C30_HistoryIsRecentTail ==
  ret'.op = "get_history" =>
    LET stored == StoredOf(messages', ret'.user_id)
        inHour == {i \in 1..Len(stored) : stored[i].timestamp >= ret'.now - Hour}
        n == IF Cardinality(inHour) < 20 THEN Cardinality(inHour) ELSE 20
    IN /\ Len(ret'.history) <= 20
       /\ ret'.history = Shown(LastOf(stored, n))

C30_Step ==
  messages' # messages \/ ret' # ret =>
    /\ C30_Cap
    /\ C30_RemovesOldestOfCaller
    /\ C30_HistoryIsRecentTail

\* C30: after any sequence of add_message and reset_history calls every user
\* has at most 20 stored messages; an add_message that passes the limit removes
\* the oldest messages of that user in the order of their insertion, also when
\* the messages carry one timestamp; a call never removes a message of another
\* user; get_history returns at most 20 messages, the most recent ones of the
\* user, the oldest first.
C30_HistoryCap == [][C30_Step]_vars

\* user 1 stored 21 messages within one second after user 2 stored the first
\* message of the table: the limit was passed, user 1 keeps 20 messages, the
\* older message of user 2 is still there, and get_history returned 20 entries
C30_Witness ==
  /\ ret.op = "get_history"
  /\ ret.user_id = 1
  /\ Len(ret.history) = 20
  /\ messages.seq >= 22
  /\ Len(StoredOf(messages, 1)) = 20
  /\ \A i \in DOMAIN messages.rows : messages.rows[i].timestamp = 0
  /\ \E i \in DOMAIN messages.rows :
        messages.rows[i].user_id = 2 /\ messages.rows[i].id = 1

====
